---- MODULE Spec2Model ----
(***************************************************************************)
(* lupabase: a file- or memory-backed record store.                        *)
(*                                                                         *)
(* The model covers the CRUD operation engine (database/operation_path.rs),*)
(* the shared checks (utils.rs, record/utils.rs), the storage I/O of the   *)
(* file and in-memory engines (engine/*.rs) and the snapshot transaction   *)
(* protocol (transaction/mod.rs, database.rs, engine/jsondb.rs,            *)
(* engine/cbordb.rs).                                                      *)
(***************************************************************************)
EXTENDS Integers, Sequences, FiniteSets, TLC

(***************************************************************************)
(* Bounds                                                                  *)
(***************************************************************************)
\* longest collection a caller passes to one call
MaxLen == 2

\* the unique values (NonZero ids) and the payloads of the records
Keys == {1, 2}
Data == {1, 2}

\* tests/tests_records.rs TestRecord { id, data }: two records of one
\* unique value that differ in their payload, and a record of another
Records == {r \in [id : Keys, data : Data] : r.id = 1 \/ r.data = 1}

RECURSIVE SeqsUpTo(_, _)
SeqsUpTo(S, n) ==
    IF n = 0 THEN {<<>>}
    ELSE LET shorter == SeqsUpTo(S, n - 1)
         IN  shorter \cup {Append(s, x) : s \in {t \in shorter : Len(t) = n - 1}, x \in S}

\* the collections a caller can pass
Collections == SeqsUpTo(Records, MaxLen)

\* tests/tests_records.rs TestRecordPartitioned::PARTITION
PARTITION == "TestRecordPartitioned"

\* the records and collections passed to the calls of the transaction
\* protocol
TxLen == 1
TxKeys == {1}
TxRecords == [id : TxKeys, data : Data]
TxCollections == SeqsUpTo(TxRecords, TxLen)

(***************************************************************************)
(* Record contract and record utilities (record.rs, record/utils.rs)       *)
(***************************************************************************)
unique_value(r) == r.id

Contains(s, x) == \E i \in 1..Len(s) : s[i] = x

as_uniques(records) == [i \in 1..Len(records) |-> unique_value(records[i])]

\* itertools::Itertools::duplicates: every element that occurs more than
\* once, yielded once, when its second occurrence is met
duplicates(s) ==
    LET F[i \in 0..Len(s)] ==
            IF i = 0 THEN <<>>
            ELSE IF Cardinality({j \in 1..(i - 1) : s[j] = s[i]}) = 1
                 THEN Append(F[i - 1], s[i])
                 ELSE F[i - 1]
    IN  F[Len(s)]

\* a variant that looks for repeated unique values among the other records
\* only; C9_InsertExistingRejected tells it from the code's
duplicates_within(self, other_records) == duplicates(as_uniques(other_records))

\* a variant that reports the unique values of the other records that self
\* holds, and no value repeated among the other records alone;
\* C36_InsertRepeatedRejected tells it from the code's
uniques_held_by_self(self, other_records) ==
    SelectSeq(as_uniques(other_records), LAMBDA ou : Contains(as_uniques(self), ou))

find_intersecting_uniques_from(self, other_records) ==
    duplicates(as_uniques(self) \o as_uniques(other_records))

find_non_intersecting_uniques_from(self, other_records) ==
    LET all_that_exists == find_intersecting_uniques_from(self, other_records)
    IN  SelectSeq(as_uniques(other_records),
                  LAMBDA ou : ~Contains(all_that_exists, ou))

\* index of the first record with the unique value, 0 for None
find_by_unique(records, unique) ==
    IF \E i \in 1..Len(records) : unique_value(records[i]) = unique
    THEN CHOOSE i \in 1..Len(records) :
            /\ unique_value(records[i]) = unique
            /\ \A j \in 1..(i - 1) : unique_value(records[j]) # unique
    ELSE 0

\* no two records of the collection share a unique value
AllUnique(records) ==
    \A i, j \in 1..Len(records) :
        unique_value(records[i]) = unique_value(records[j]) => i = j

(***************************************************************************)
(* Errors (error.rs).  reason is the text carried by the error, a sequence *)
(* of tokens; to_string is the Display text of the error.                  *)
(***************************************************************************)
Error(kind, path, reason) == [kind |-> kind, path |-> path, reason |-> reason]

to_string(e) == <<e.kind>> \o e.path \o e.reason

Ok(v) == [ok |-> TRUE, val |-> v]
Err(e) == [ok |-> FALSE, err |-> e]
Panic(msg) == [ok |-> FALSE, err |-> Error("panic", <<>>, <<msg>>)]
Unit == <<>>

KeyTokens(ks) == [i \in 1..Len(ks) |-> ToString(ks[i])]

(***************************************************************************)
(* Codec: the textual document of a collection of records, as the bytes    *)
(* of "[{id data}...]": brackets, braces and one digit per field.          *)
(***************************************************************************)
Digit(n) == 48 + n

RecordBytes(r) == <<123, Digit(r.id), Digit(r.data), 125>>

RECURSIVE to_vec(_)
to_vec(records) ==
    IF records = <<>> THEN <<91, 93>>
    ELSE <<91>> \o RecordBytes(Head(records)) \o Tail(to_vec(Tail(records)))

IsRecordBytes(bytes, at) ==
    /\ bytes[at] = 123
    /\ (bytes[at + 1] - 48) \in Keys
    /\ (bytes[at + 2] - 48) \in Data
    /\ bytes[at + 3] = 125

ParseRecord(bytes, at) == [id |-> bytes[at + 1] - 48, data |-> bytes[at + 2] - 48]

\* Ok(collection) when the bytes are the document of a collection,
\* Err otherwise
from_slice(bytes) ==
    LET n == Len(bytes)
        cnt == (n - 2) \div 4
    IN  IF /\ n >= 2
           /\ bytes[1] = 91
           /\ bytes[n] = 93
           /\ (n - 2) % 4 = 0
           /\ \A i \in 1..cnt : IsRecordBytes(bytes, 4 * i - 2)
        THEN Ok([i \in 1..cnt |-> ParseRecord(bytes, 4 * i - 2)])
        ELSE Err(<<"invalid document">>)

\* to_vec of one record
to_vec_value(r) == RecordBytes(r)

\* from_slice for the type of one record: Ok(record) when the bytes are the
\* document of one record, Err otherwise
from_slice_value(bytes) ==
    IF Len(bytes) = 4 /\ IsRecordBytes(bytes, 1)
    THEN Ok(ParseRecord(bytes, 1))
    ELSE Err(<<"invalid document">>)

(***************************************************************************)
(* Storage.  A store maps the paths that exist to the bytes held there:    *)
(* the files under the directory of a file engine, or the HashMap of the   *)
(* in-memory engine.  A handle is an engine tag and a store.               *)
(***************************************************************************)
EmptyStore == <<>>

\* a variant that stores nothing; C22_RoundTrip tells it from the code's
put_nothing(store, path, bytes) == store

Put(store, path, bytes) ==
    [q \in (DOMAIN store) \cup {path} |-> IF q = path THEN bytes ELSE store[q]]

Handle(engine, store) == [engine |-> engine, store |-> store]

\* what the operating system does to a write of a file: nothing wrong, the
\* parent directory cannot be created, the path is a directory, the write
\* itself is refused
Faults == {"none", "mkdir", "isdir", "write"}

\* the faults met by the calls of the CRUD engine
WriteFaults == {"none", "write"}

\* the clock readings a backup name can carry
Times == {"t1"}

Env(fault, now) == [fault |-> fault, now |-> now]

\* utils.rs try_write_file; a refused write leaves the file as it was
try_write_file(store, serialized_bytes, path, env) ==
    IF env.fault = "mkdir"
    THEN [res |-> Err(Error("IOCreateDirFailure", path, <<"os error">>)), store |-> store]
    ELSE IF env.fault = "isdir"
    THEN [res |-> Err(Error("DBCorrupt", path, <<"IsADirectory">>)), store |-> store]
    ELSE IF env.fault = "write"
    THEN [res |-> Err(Error("IOWriteFailure", path, <<"os error">>)), store |-> store]
    ELSE [res |-> Ok(Unit), store |-> Put(store, path, serialized_bytes)]

\* a variant that reads a missing file as the document of the empty
\* collection; C23_MissingIsNotFound tells it from the code's
read_missing_as_empty(store, path) ==
    IF path \in DOMAIN store THEN Ok(store[path]) ELSE Ok(to_vec(<<>>))

\* utils.rs try_read_file
try_read_file(store, path) ==
    IF path \in DOMAIN store THEN Ok(store[path])
    ELSE Err(Error("DBNotFound", path, <<>>))

\* database/io.rs try_backup_storage: the path of the backup
backup_path(path, reason, now) == path \o <<now, reason, "bak">>

\* the faults met by a call that reads a partition and may write it: the
\* write is refused, or the copy of an undecodable file to its backup is
IoFaults == {"none", "write", "copy"}

\* utils.rs try_copy_file, called by the file engines' try_copy_storage: the
\* destination receives the bytes of the source, or the copy is refused
try_copy_file(store, source, destination, env) ==
    IF env.fault = "copy"
    THEN [res |-> Err(Error("IOCopyFailure", source, <<"os error">>)), store |-> store]
    ELSE [res |-> Ok(Unit), store |-> Put(store, destination, store[source])]

\* database/io.rs try_backup_storage with the file engines' try_copy_storage
try_backup_storage(store, path, reason, env) ==
    LET c == try_copy_file(store, path, backup_path(path, reason, env.now), env)
    IN  IF c.res.ok
        THEN [res |-> Ok(backup_path(path, reason, env.now)), store |-> c.store]
        ELSE [res |-> c.res, store |-> c.store]

\* utils.rs backup_failed_parse: the failure of the backup replaces the
\* corruption report
backup_failed_parse(store, path, error, env) ==
    LET b == try_backup_storage(store, path, "FAILED_PARSING", env)
    IN  IF b.res.ok
        THEN [res |-> Err(Error("DBCorrupt", path, <<"DeserializationFailure">> \o error)),
              store |-> b.store]
        ELSE [res |-> b.res, store |-> b.store]

\* a variant whose map holds the written key alone afterwards;
\* C39_OtherPathsKept tells it from the code's
memory_write_alone(store, data, path) ==
    [res |-> Ok(Unit), store |-> Put(EmptyStore, path, to_vec(data))]

\* engine/memorydb.rs try_write_file: insert into the map under the lock
memory_try_write(store, data, path) ==
    [res |-> Ok(Unit), store |-> Put(store, path, to_vec(data))]

\* a variant that reads a path that holds nothing as the empty collection;
\* C38_UnseededResolveFails tells it from the code's
memory_read_missing_as_empty(store, path) ==
    IF path \notin DOMAIN store THEN [res |-> Ok(<<>>), store |-> store]
    ELSE [res |-> from_slice(store[path]), store |-> store]

\* engine/memorydb.rs try_read_file
memory_try_read(store, path) ==
    IF path \notin DOMAIN store
    THEN [res |-> Err(Error("DBNotFound", path, <<>>)), store |-> store]
    ELSE LET d == from_slice(store[path])
         IN  IF d.ok THEN [res |-> d, store |-> store]
             ELSE [res |-> Err(Error("DBCorrupt", path,
                                     <<"DeserializationFailure">> \o d.err)),
                   store |-> store]

\* engine/jsondb.rs JsonDB::try_write_storage, engine/cbordb.rs
\* CborDB::try_write_file
file_try_write(store, data, path, env) ==
    try_write_file(store, to_vec(data), path, env)

\* engine/jsondb.rs JsonDB::try_read_storage, engine/cbordb.rs
\* CborDB::try_read_file
file_try_read(store, path, env) ==
    LET file_data == try_read_file(store, path)
    IN  IF ~file_data.ok THEN [res |-> file_data, store |-> store]
        ELSE LET d == from_slice(file_data.val)
             IN  IF d.ok THEN [res |-> d, store |-> store]
                 ELSE backup_failed_parse(store, path, d.err, env)

\* DatabaseIO::try_write_storage, dispatched on the engine of the handle
try_write_storage(db, data, path, env) ==
    IF db.engine = "memory" THEN memory_try_write(db.store, data, path)
    ELSE file_try_write(db.store, data, path, env)

\* DatabaseIO::try_read_storage, dispatched on the engine of the handle
try_read_storage(db, path, env) ==
    IF db.engine = "memory" THEN memory_try_read(db.store, path)
    ELSE file_try_read(db.store, path, env)

(***************************************************************************)
(* Shared checks (utils.rs)                                                *)
(***************************************************************************)
\* a variant that accepts every collection; C1_UniquenessKept tells it from
\* the code's check
accept_all_records(current_records, new_records, path) == Ok(Unit)

check_is_all_new_records(current_records, new_records, path) ==
    LET dups == find_intersecting_uniques_from(current_records, new_records)
    IN  IF dups # <<>>
        THEN Err(Error("DBOperationFailure", path,
                       <<"duplicate when inserting">> \o KeyTokens(dups)))
        ELSE Ok(Unit)

check_is_all_existing_records(current_records, new_records, path) ==
    LET non_matching == find_non_intersecting_uniques_from(current_records, new_records)
    IN  IF non_matching # <<>>
        THEN Err(Error("DBOperationFailure", path,
                       <<"non-matching when updating">> \o KeyTokens(non_matching)))
        ELSE Ok(Unit)

\* the outcome of an operation: its result, the store it leaves and
\* whether it called try_write_storage
Outcome(res, store, wrote) == [res |-> res, store |-> store, wrote |-> wrote]

\* a variant that writes the default whatever the path holds;
\* C14_InitializeIdempotent tells it from the code's
populate_always(db, default_data, path, env) ==
    LET w == try_write_storage(db, default_data, path, env)
    IN  Outcome(w.res, w.store, TRUE)

\* a variant that takes every failed read for a missing path;
\* C15_InitializeKeepsUndecodable tells it from the code's
populate_unreadable(db, default_data, path, env) ==
    LET rd == try_read_storage(db, path, env)
    IN  IF rd.res.ok THEN Outcome(Ok(Unit), rd.store, FALSE)
        ELSE LET w == try_write_storage(Handle(db.engine, rd.store), default_data, path, env)
             IN  Outcome(w.res, w.store, TRUE)

try_populate_storage(db, default_data, path, env) ==
    LET rd == try_read_storage(db, path, env)
    IN  IF rd.res.ok THEN Outcome(Ok(Unit), rd.store, FALSE)
        ELSE IF rd.res.err.kind = "DBNotFound"
        THEN LET w == try_write_storage(Handle(db.engine, rd.store), default_data, path, env)
             IN  Outcome(w.res, w.store, TRUE)
        ELSE Outcome(rd.res, rd.store, FALSE)

(***************************************************************************)
(* CRUD operation engine (database/operation_path.rs)                      *)
(***************************************************************************)
get_all_with_path(db, path, env) == try_read_storage(db, path, env)

\* a variant that reads the stored records again when it writes;
\* C12_WriteKeepsOnlyWhatWasRead tells it from the code's
insert_all_rereading(db, records, new_records, path, env) ==
    LET rd == get_all_with_path(db, path, env)
        current == IF rd.res.ok THEN rd.res.val ELSE records
        chk == check_is_all_new_records(current, new_records, path)
    IN  IF ~chk.ok THEN Outcome(chk, db.store, FALSE)
        ELSE LET w == try_write_storage(db, current \o new_records, path, env)
             IN  Outcome(w.res, w.store, TRUE)

\* insert_all_with_path from the records it has read on: the check, the
\* extend and the write of the whole collection
\* a variant that writes the new records before the stored ones;
\* C30_InsertAppends tells it from the code's
insert_all_prepending(db, records, new_records, path, env) ==
    LET chk == check_is_all_new_records(records, new_records, path)
    IN  IF ~chk.ok THEN Outcome(chk, db.store, FALSE)
        ELSE LET w == try_write_storage(db, new_records \o records, path, env)
             IN  Outcome(w.res, w.store, TRUE)

insert_all_after_read(db, records, new_records, path, env) ==
    LET chk == check_is_all_new_records(records, new_records, path)
    IN  IF ~chk.ok THEN Outcome(chk, db.store, FALSE)
        ELSE LET w == try_write_storage(db, records \o new_records, path, env)
             IN  Outcome(w.res, w.store, TRUE)

insert_all_with_path(db, new_records, path, env) ==
    LET rd == get_all_with_path(db, path, env)
    IN  IF ~rd.res.ok THEN Outcome(rd.res, rd.store, FALSE)
        ELSE insert_all_after_read(Handle(db.engine, rd.store), rd.res.val,
                                   new_records, path, env)

insert_with_path(db, updated_record, path, env) ==
    insert_all_with_path(db, <<updated_record>>, path, env)

\* a variant that writes every updated record over the first stored record;
\* C29_UpdateInPlace tells it from the code's
apply_updates_first(records, updated_records) ==
    IF updated_records = <<>> \/ records = <<>> THEN Ok(records)
    ELSE Ok([records EXCEPT ![1] = updated_records[Len(updated_records)]])

\* the for_each of update_all_with_path: every updated record replaces the
\* first record with its unique value; expect panics on None
RECURSIVE apply_updates(_, _)
apply_updates(records, updated_records) ==
    IF updated_records = <<>> THEN Ok(records)
    ELSE LET ur == Head(updated_records)
             i == find_by_unique(records, unique_value(ur))
         IN  IF i = 0
             THEN Panic("All records should exist as it was checked before.")
             ELSE apply_updates([records EXCEPT ![i] = ur], Tail(updated_records))

\* update_all_with_path from the records it has read on: the check, the
\* assignments and the write of the whole collection
update_all_after_read(db, records, updated_records, path, env) ==
    LET chk == check_is_all_existing_records(records, updated_records, path)
    IN  IF ~chk.ok THEN Outcome(chk, db.store, FALSE)
        ELSE LET upd == apply_updates(records, updated_records)
             IN  IF ~upd.ok THEN Outcome(upd, db.store, FALSE)
                 ELSE LET w == try_write_storage(db, upd.val, path, env)
                      IN  Outcome(w.res, w.store, TRUE)

update_all_with_path(db, updated_records, path, env) ==
    LET rd == get_all_with_path(db, path, env)
    IN  IF ~rd.res.ok THEN Outcome(rd.res, rd.store, FALSE)
        ELSE update_all_after_read(Handle(db.engine, rd.store), rd.res.val,
                                   updated_records, path, env)

update_with_path(db, updated_record, path, env) ==
    update_all_with_path(db, <<updated_record>>, path, env)

\* the loop of replace_all_with_path: records are pushed one by one, the
\* first one whose unique value is already pushed ends the call
\* a variant that collects nothing; C16_ReplaceTotal tells it from the code's
collect_nothing(records, updated_records, path) == Ok(<<>>)

RECURSIVE collect_replacement(_, _, _)
collect_replacement(records, updated_records, path) ==
    IF updated_records = <<>> THEN Ok(records)
    ELSE LET ur == Head(updated_records)
             i == find_by_unique(records, unique_value(ur))
         IN  IF i # 0
             THEN Err(Error("DBOperationFailure", path,
                            <<"duplicated when replacing",
                              ToString(unique_value(records[i]))>>))
             ELSE collect_replacement(Append(records, ur), Tail(updated_records), path)

\* a variant that writes the collection as given; C10_ReplaceRepeatedRejected
\* tells it from the code's
replace_unchecked(db, updated_records, path, env) ==
    LET w == try_write_storage(db, updated_records, path, env)
    IN  Outcome(w.res, w.store, TRUE)

\* a variant that reads the stored collection before it replaces it;
\* C31_ReplaceIgnoresStored tells it from the code's
replace_all_reading(db, updated_records, path, env) ==
    LET rd == get_all_with_path(db, path, env)
    IN  IF ~rd.res.ok /\ rd.res.err.kind # "DBNotFound"
        THEN Outcome(rd.res, rd.store, FALSE)
        ELSE LET w == try_write_storage(db, updated_records, path, env)
             IN  Outcome(w.res, w.store, TRUE)

replace_all_with_path(db, updated_records, path, env) ==
    LET col == collect_replacement(<<>>, updated_records, path)
    IN  IF ~col.ok THEN Outcome(col, db.store, FALSE)
        ELSE LET w == try_write_storage(db, col.val, path, env)
             IN  Outcome(w.res, w.store, TRUE)

\* upsert: a record whose unique value exists replaces that record, any
\* other record is appended
\* a variant that appends every upserted record;
\* C17_UpsertReplacesOrAppends tells it from the modelled upsert
apply_appends(records, upserted_records) == records \o upserted_records

RECURSIVE apply_upserts(_, _)
apply_upserts(records, upserted_records) ==
    IF upserted_records = <<>> THEN records
    ELSE LET ur == Head(upserted_records)
             i == find_by_unique(records, unique_value(ur))
         IN  IF i # 0
             THEN apply_upserts([records EXCEPT ![i] = ur], Tail(upserted_records))
             ELSE apply_upserts(Append(records, ur), Tail(upserted_records))

\* a variant that treats the upserted records as new ones;
\* C18_UpsertNeverRejects tells it from the modelled upsert
upsert_all_inserting(db, upserted_records, path, env) ==
    insert_all_with_path(db, upserted_records, path, env)

upsert_all_with_path(db, upserted_records, path, env) ==
    LET rd == get_all_with_path(db, path, env)
    IN  IF ~rd.res.ok THEN Outcome(rd.res, rd.store, FALSE)
        ELSE LET w == try_write_storage(Handle(db.engine, rd.store),
                                        apply_upserts(rd.res.val, upserted_records),
                                        path, env)
             IN  Outcome(w.res, w.store, TRUE)

upsert_with_path(db, upserted_record, path, env) ==
    upsert_all_with_path(db, <<upserted_record>>, path, env)

\* engine/jsondb.rs JsonDB::try_initialize_storage_with_path
try_initialize_storage_with_path(db, default_data, path, env) ==
    try_populate_storage(db, default_data, path, env)

(***************************************************************************)
(* Handles.  The heap maps "disk" to the files under the directory of the  *)
(* primary handle and every MemoryDB allocated to its HashMap (the map is  *)
(* behind an Arc: a clone of a MemoryDB is the same allocation).           *)
(***************************************************************************)
Backends == {"json", "cbor"}

\* DatabaseIO::file_path (database/io.rs) with the EXTENSION of JsonDB and
\* JsonDBTransaction; CborDB::file_path, CborDBTransaction::file_path and
\* MemoryDB::file_path
file_path(db, file_name) ==
    IF db = "JsonDB" THEN <<file_name, "jsondb">>
    ELSE IF db = "JsonDB-Transaction" THEN <<file_name, "jsontransactdb">>
    ELSE IF db = "CborDB" THEN <<file_name, "Cbordb">>
    ELSE <<file_name>>

PrimaryName(b) == IF b = "json" THEN "JsonDB" ELSE "CborDB"
TransactionName(b) == IF b = "json" THEN "JsonDB-Transaction" ELSE "CborDB-Transaction"

\* engine/jsondb.rs JsonDBTransaction::new: two MemoryDB::new
JsonDBTransaction_new ==
    [open |-> TRUE, records_before |-> "m1", records_after |-> "m2"]

\* engine/cbordb.rs CborDBTransaction::new: one MemoryDB::new and its clone
CborDBTransaction_new ==
    [open |-> TRUE, records_before |-> "m1", records_after |-> "m1"]

\* transaction/mod.rs, database.rs transact: TransactionDB::new("")
transact(b) == IF b = "json" THEN JsonDBTransaction_new ELSE CborDBTransaction_new

\* variants that address another store; C5_Isolation and
\* C3_CommitPublishesAfter tell them from the code's
write_primary(t) == "disk"
read_before(t) == t.records_before

\* the store a transaction handle writes: records_after
\* (JsonDBTransaction::try_write_storage, CborDBTransaction::try_write_file)
tx_write_target(t) == t.records_after

\* the store a transaction handle reads: records_after
\* (JsonDBTransaction::try_read_storage, CborDBTransaction::try_read_file)
tx_read_source(t) == t.records_after

\* the store of the before-snapshot: records_before
\* (JsonDBTransaction::try_read_storage_before, CborDB::try_rollback)
tx_before_source(t) == t.records_before

NoEnv == Env("none", "t1")

\* a step over the heap: the result, the heap it leaves, whether
\* try_write_storage of the primary was called
HeapOutcome(res, heap, wrote) == [res |-> res, heap |-> heap, wrote |-> wrote]

\* engine/memorydb.rs MemoryDB::try_initialize_file
memory_try_initialize_file(store, default_records, path) ==
    try_populate_storage(Handle("memory", store), default_records, path, NoEnv)

\* a variant that populates the after-snapshot only;
\* C19_SeedingFillsBothSnapshots tells it from the code's
initialize_after_only(heap, t, default_data, path) ==
    LET a == try_populate_storage(Handle("memory", heap[t.records_after]),
                                  default_data, path, NoEnv)
    IN  HeapOutcome(a.res, [heap EXCEPT ![t.records_after] = a.store], FALSE)

\* engine/jsondb.rs JsonDBTransaction::try_initialize_storage_with_path
JsonDBTransaction_try_initialize_storage_with_path(heap, t, default_data, path) ==
    LET b == try_populate_storage(Handle("memory", heap[t.records_before]),
                                  default_data, path, NoEnv)
        h1 == [heap EXCEPT ![t.records_before] = b.store]
    IN  IF ~b.res.ok THEN HeapOutcome(b.res, h1, FALSE)
        ELSE LET a == try_populate_storage(Handle("memory", h1[t.records_after]),
                                           default_data, path, NoEnv)
             IN  HeapOutcome(a.res, [h1 EXCEPT ![t.records_after] = a.store], FALSE)

\* engine/cbordb.rs CborDBTransaction::try_initialize_file
CborDBTransaction_try_initialize_file(heap, t, default_records, path) ==
    LET rd == memory_try_read(heap[tx_read_source(t)], path)
    IN  IF rd.res.ok THEN HeapOutcome(Ok(Unit), heap, FALSE)
        ELSE IF rd.res.err.kind = "DBNotFound"
        THEN LET i == memory_try_initialize_file(heap[t.records_after],
                                                 default_records, path)
             IN  HeapOutcome(i.res, [heap EXCEPT ![t.records_after] = i.store], FALSE)
        ELSE HeapOutcome(rd.res, heap, FALSE)

(***************************************************************************)
(* Transaction protocol of JsonDB (transaction/mod.rs)                     *)
(***************************************************************************)
\* a variant that takes the before-snapshot out of the transaction when it
\* has written it; C34_ResolvingKeepsTransaction tells it from the code's
rollback_consuming(heap, t, transaction_path, database_path, env) ==
    LET records_before == memory_try_read(heap[t.records_before], transaction_path)
    IN  IF ~records_before.res.ok THEN HeapOutcome(records_before.res, heap, FALSE)
        ELSE LET w == try_write_storage(Handle("file", heap["disk"]),
                                        records_before.res.val, database_path, env)
             IN  HeapOutcome(w.res, [heap EXCEPT !["disk"] = w.store,
                                                 ![t.records_before] = EmptyStore],
                             TRUE)

try_rollback_with_path(heap, t, transaction_path, database_path, env) ==
    LET records_before == memory_try_read(heap[tx_before_source(t)], transaction_path)
    IN  IF ~records_before.res.ok THEN HeapOutcome(records_before.res, heap, FALSE)
        ELSE LET w == try_write_storage(Handle("file", heap["disk"]),
                                        records_before.res.val, database_path, env)
             IN  HeapOutcome(w.res, [heap EXCEPT !["disk"] = w.store], TRUE)

\* a variant that reports a failed commit without rolling back;
\* C6_FailedCommitRollsBack tells it from the code's
commit_without_rollback(heap, t, transaction_path, database_path, env1, env2) ==
    LET records == memory_try_read(heap[t.records_after], transaction_path)
    IN  IF ~records.res.ok THEN HeapOutcome(records.res, heap, FALSE)
        ELSE LET w == try_write_storage(Handle("file", heap["disk"]),
                                        records.res.val, database_path, env1)
             IN  IF w.res.ok
                 THEN HeapOutcome(Ok(Unit), [heap EXCEPT !["disk"] = w.store], TRUE)
                 ELSE HeapOutcome(Err(Error("DBTransactionCommitFailure",
                                            database_path, to_string(w.res.err))),
                                  [heap EXCEPT !["disk"] = w.store], TRUE)

\* a variant that tries the write of the commit a second time before it
\* rolls back; C33_CommitTriesOnce tells it from the code's
commit_retrying(heap, t, transaction_path, database_path, env1, env2) ==
    LET records == memory_try_read(heap[t.records_after], transaction_path)
    IN  IF ~records.res.ok THEN HeapOutcome(records.res, heap, FALSE)
        ELSE LET w == try_write_storage(Handle("file", heap["disk"]),
                                        records.res.val, database_path, env1)
                 again == try_write_storage(Handle("file", heap["disk"]),
                                            records.res.val, database_path, env2)
             IN  IF w.res.ok
                 THEN HeapOutcome(Ok(Unit), [heap EXCEPT !["disk"] = w.store], TRUE)
                 ELSE IF again.res.ok
                 THEN HeapOutcome(Ok(Unit), [heap EXCEPT !["disk"] = again.store], TRUE)
                 ELSE HeapOutcome(Err(Error("DBTransactionRollbackFailure",
                                            database_path, to_string(again.res.err))),
                                  heap, TRUE)

try_commit_with_path(heap, t, transaction_path, database_path, env1, env2) ==
    LET records == memory_try_read(heap[tx_read_source(t)], transaction_path)
    IN  IF ~records.res.ok THEN HeapOutcome(records.res, heap, FALSE)
        ELSE LET w == try_write_storage(Handle("file", heap["disk"]),
                                        records.res.val, database_path, env1)
             IN  IF w.res.ok
                 THEN HeapOutcome(Ok(Unit), [heap EXCEPT !["disk"] = w.store], TRUE)
                 ELSE LET rb == try_rollback_with_path([heap EXCEPT !["disk"] = w.store],
                                                       t, transaction_path,
                                                       database_path, env2)
                      IN  IF ~rb.res.ok
                          THEN HeapOutcome(Err(Error("DBTransactionRollbackFailure",
                                                     database_path,
                                                     to_string(rb.res.err))),
                                           rb.heap, TRUE)
                          ELSE HeapOutcome(Err(Error("DBTransactionCommitFailure",
                                                     database_path,
                                                     to_string(w.res.err))),
                                           rb.heap, TRUE)

(***************************************************************************)
(* Transaction protocol of CborDB (database.rs, engine/cbordb.rs)          *)
(***************************************************************************)
\* engine/cbordb.rs CborDB::try_rollback
CborDB_try_rollback(heap, t, transaction_path, database_path, env) ==
    LET records_before == memory_try_read(heap[tx_before_source(t)], transaction_path)
    IN  IF ~records_before.res.ok THEN HeapOutcome(records_before.res, heap, FALSE)
        ELSE LET w == file_try_write(heap["disk"], records_before.res.val,
                                     database_path, env)
             IN  HeapOutcome(w.res, [heap EXCEPT !["disk"] = w.store], TRUE)

\* database.rs DatabaseTransaction::try_commit: the after-snapshot goes to
\* the primary through replace_all
CborDB_try_commit(heap, t, transaction_path, database_path, env1, env2) ==
    LET records == memory_try_read(heap[tx_read_source(t)], transaction_path)
    IN  IF ~records.res.ok THEN HeapOutcome(records.res, heap, FALSE)
        ELSE LET w == replace_all_with_path(Handle("file", heap["disk"]),
                                            records.res.val, database_path, env1)
             IN  IF w.res.ok
                 THEN HeapOutcome(Ok(Unit), [heap EXCEPT !["disk"] = w.store], TRUE)
                 ELSE LET rb == CborDB_try_rollback([heap EXCEPT !["disk"] = w.store],
                                                    t, transaction_path,
                                                    database_path, env2)
                      IN  IF ~rb.res.ok
                          THEN HeapOutcome(Err(Error("DBTransactionRollbackFailure",
                                                     <<PARTITION>>,
                                                     to_string(rb.res.err))),
                                           rb.heap, TRUE)
                          ELSE HeapOutcome(Err(Error("DBTransactionCommitFailure",
                                                     <<PARTITION>>,
                                                     to_string(w.res.err))),
                                           rb.heap, TRUE)

(***************************************************************************)
(* State                                                                   *)
(***************************************************************************)
VARIABLES
    backend,  \* the engine of the primary handle: "json" or "cbor"
    heap,     \* "disk" and the MemoryDB allocations, each a store
    tx,       \* the transaction handle: the allocations it holds
    seeded,   \* the data the transaction's snapshots were first populated with
    last,     \* the last call on a handle and what it returned
    threads   \* the threads that share a MemoryDB: where each is in its call

vars == <<backend, heap, tx, seeded, last, threads>>

NoTx == [open |-> FALSE, records_before |-> "disk", records_after |-> "disk"]

NotSeeded == [set |-> FALSE, data |-> <<>>]

\* the threads of a program that shares one MemoryDB
Threads == {1, 2}

\* a thread outside a call
Idle == [pc |-> "idle", new_records |-> <<>>, records |-> <<>>, res |-> Ok(Unit)]

NoThreads == [t \in Threads |-> Idle]

PrimaryPath == file_path(PrimaryName(backend), PARTITION)
TxPath == file_path(TransactionName(backend), PARTITION)

\* the stored collection of a store at a path, when it decodes
Readable(store, path) == path \in DOMAIN store /\ from_slice(store[path]).ok
Stored(store, path) == from_slice(store[path]).val

KeysOf(records) == {unique_value(records[i]) : i \in 1..Len(records)}

\* the unique value of the first record of a collection that repeats the
\* unique value of an earlier record, 0 when there is none
FirstRepeated(records) ==
    LET rep == {j \in 1..Len(records) :
                   \E i \in 1..(j - 1) : unique_value(records[i]) = unique_value(records[j])}
    IN  IF rep = {} THEN 0
        ELSE unique_value(records[CHOOSE j \in rep : \A k \in rep : j <= k])

\* how the argument of a call relates to the collection stored when the
\* call is made:
\*   present       the path holds bytes
\*   readable      the path holds a collection
\*   some_stored   a unique value of the argument is stored
\*   some_absent   a unique value of the argument is not stored
\*   first_dup     FirstRepeated of the argument
CaseOf(store, path, records) ==
    LET readable == Readable(store, path)
        stored == IF readable THEN KeysOf(Stored(store, path)) ELSE {}
    IN  [present     |-> path \in DOMAIN store,
         readable    |-> readable,
         some_stored |-> readable /\ KeysOf(records) \cap stored # {},
         some_absent |-> readable /\ KeysOf(records) \ stored # {},
         first_dup   |-> FirstRepeated(records)]

\* the store holds nothing at the path or a collection without two records
\* of one unique value
Clean(store, path) ==
    path \notin DOMAIN store
    \/ (from_slice(store[path]).ok /\ AllUnique(Stored(store, path)))

\* which stores a step changed: the primary's files, the store of the
\* before-snapshot, the store of the after-snapshot
Changed(h0, t, h1) ==
    [primary |-> h1["disk"] # h0["disk"],
     before  |-> t.open /\ h1[t.records_before] # h0[t.records_before],
     after   |-> t.open /\ h1[t.records_after] # h0[t.records_after]]

\* the records of a collection whose unique value is not in ks, in order
RECURSIVE Without(_, _)
Without(records, ks) ==
    IF records = <<>> THEN <<>>
    ELSE IF unique_value(Head(records)) \in ks THEN Without(Tail(records), ks)
    ELSE <<Head(records)>> \o Without(Tail(records), ks)

\* the last record of a collection with the unique value k
LastOf(records, k) ==
    LET at == {i \in 1..Len(records) : unique_value(records[i]) = k}
    IN  records[CHOOSE i \in at : \A j \in at : j <= i]

\* what a call that upserts the records leaves: for every unique value of
\* the argument one record, the last of the argument with that value, and
\* the records of every other unique value as they were
Upserted(before, store, path, records) ==
    /\ Readable(before, path)
    /\ Readable(store, path)
    /\ \A k \in KeysOf(records) :
          \E i \in 1..Len(Stored(store, path)) :
              /\ Stored(store, path)[i] = LastOf(records, k)
              /\ \A j \in 1..Len(Stored(store, path)) :
                    unique_value(Stored(store, path)[j]) = k => j = i
    /\ Without(Stored(store, path), KeysOf(records))
       = Without(Stored(before, path), KeysOf(records))

\* what a call that updates the records leaves: a collection of the same
\* length with the same unique values at the same places, where every
\* record of a unique value of the argument is the (last) record of the
\* argument with that value and every other record is as it was
Updated(before, store, path, records) ==
    /\ Readable(before, path)
    /\ Readable(store, path)
    /\ Len(Stored(store, path)) = Len(Stored(before, path))
    /\ \A i \in 1..Len(Stored(before, path)) :
          LET old == Stored(before, path)[i]
              new == Stored(store, path)[i]
          IN  IF unique_value(old) \in KeysOf(records)
              THEN new = LastOf(records, unique_value(old))
              ELSE new = old

\* what a call that inserts the records leaves: the stored records as they
\* were, followed by the records of the argument in their order
Appended(before, store, path, records) ==
    /\ Readable(before, path)
    /\ Readable(store, path)
    /\ Stored(store, path) = Stored(before, path) \o records

\* what the store holds at the path: <<bytes>>, or <<>> when nothing is there
At(store, path) == IF path \in DOMAIN store THEN <<store[path]>> ELSE <<>>

\* the record of a call: its name, how its argument relates to the stored
\* collection (CaseOf), whether the addressed collection was Clean when the
\* call was made, the faults the operating system answered its writes with,
\* its result, whether it called try_write_storage of the primary, the
\* stores it changed, and whether the addressed path holds the collection
\* that was passed once the call has returned (HoldsArg; FALSE for a call
\* that takes none), and whether the addressed path holds what it held
\* when the call was made (for a call that addresses none: whether every
\* store does)
Call(op, case, clean, faults, out) ==
    [op |-> op, case |-> case, clean |-> clean, faults |-> faults,
     res |-> out.res, wrote |-> out.wrote, changed |-> Changed(heap, tx, out.heap),
     holds_arg |-> FALSE, path_kept |-> out.heap = heap, upserted |-> FALSE,
     updated |-> FALSE, appended |-> FALSE]

\* get_all on the path returns the records
HoldsArg(store, path, records) ==
    Readable(store, path) /\ Stored(store, path) = records

\* the outcome of a call on one store, as a step over the heap
ToHeap(out, target) ==
    HeapOutcome(out.res, [heap EXCEPT ![target] = out.store], out.wrote)

FreshHeap == [id \in {"disk"} |-> EmptyStore]

\* Database::new on an empty directory
Init ==
    /\ backend = "json"
    /\ heap = FreshHeap
    /\ tx = NoTx
    /\ seeded = NotSeeded
    /\ last = Call("new", CaseOf(EmptyStore, PrimaryPath, <<>>), TRUE, <<>>,
                   HeapOutcome(Ok(Unit), FreshHeap, FALSE))
    /\ threads = NoThreads

(***************************************************************************)
(* Calls on the primary handle (database/operation.rs: every call passes   *)
(* file_path(T::PARTITION) to its _with_path form)                         *)
(***************************************************************************)
primary == Handle("file", heap["disk"])

OnPrimary(op, arg, out) ==
    /\ heap' = ToHeap(out, "disk").heap
    /\ last' = [Call(op, CaseOf(heap["disk"], PrimaryPath, arg),
                     Clean(heap["disk"], PrimaryPath), <<>>, ToHeap(out, "disk"))
                EXCEPT !.holds_arg = HoldsArg(out.store, PrimaryPath, arg),
                       !.upserted = Upserted(heap["disk"], out.store, PrimaryPath, arg),
                       !.updated = Updated(heap["disk"], out.store, PrimaryPath, arg),
                       !.appended = Appended(heap["disk"], out.store, PrimaryPath, arg),
                       !.path_kept = At(out.store, PrimaryPath) = At(heap["disk"], PrimaryPath)]
    /\ UNCHANGED <<backend, tx, seeded, threads>>

GetAll ==
    \E now \in Times :
        LET rd == get_all_with_path(primary, PrimaryPath, Env("none", now))
        IN  OnPrimary("get_all", <<>>, Outcome(rd.res, rd.store, FALSE))

Insert ==
    \E r \in Records, fault \in WriteFaults, now \in Times :
        OnPrimary("insert", <<r>>,
                  insert_with_path(primary, r, PrimaryPath, Env(fault, now)))

Update ==
    \E r \in Records, fault \in WriteFaults, now \in Times :
        OnPrimary("update", <<r>>,
                  update_with_path(primary, r, PrimaryPath, Env(fault, now)))

Upsert ==
    \E r \in Records, fault \in WriteFaults, now \in Times :
        OnPrimary("upsert", <<r>>,
                  upsert_with_path(primary, r, PrimaryPath, Env(fault, now)))

\* the calls that take a collection, for the collections of D
InsertAllOf(D) ==
    \E rs \in D, fault \in WriteFaults, now \in Times :
        OnPrimary("insert_all", rs,
                  insert_all_with_path(primary, rs, PrimaryPath, Env(fault, now)))

UpdateAllOf(D) ==
    \E rs \in D, fault \in WriteFaults, now \in Times :
        OnPrimary("update_all", rs,
                  update_all_with_path(primary, rs, PrimaryPath, Env(fault, now)))

UpsertAllOf(D) ==
    \E rs \in D, fault \in WriteFaults, now \in Times :
        OnPrimary("upsert_all", rs,
                  upsert_all_with_path(primary, rs, PrimaryPath, Env(fault, now)))

ReplaceAllOf(D) ==
    \E rs \in D, fault \in WriteFaults, now \in Times :
        OnPrimary("replace_all", rs,
                  replace_all_with_path(primary, rs, PrimaryPath, Env(fault, now)))

TryInitializeStorageOf(D) ==
    \E rs \in D, fault \in WriteFaults, now \in Times :
        OnPrimary("try_initialize_storage", rs,
                  try_initialize_storage_with_path(primary, rs, PrimaryPath,
                                                   Env(fault, now)))

TryWriteStorageOf(D) ==
    \E rs \in D, fault \in WriteFaults, now \in Times :
        LET w == try_write_storage(primary, rs, PrimaryPath, Env(fault, now))
        IN  OnPrimary("try_write_storage", rs, Outcome(w.res, w.store, TRUE))

InsertAll == InsertAllOf(Collections)
UpdateAll == UpdateAllOf(Collections)
UpsertAll == UpsertAllOf(Collections)
ReplaceAll == ReplaceAllOf(Collections)
TryInitializeStorage == TryInitializeStorageOf(Collections)
TryWriteStorage == TryWriteStorageOf(Collections)

Next ==
    \/ GetAll
    \/ Insert
    \/ InsertAll
    \/ Update
    \/ UpdateAll
    \/ Upsert
    \/ UpsertAll
    \/ ReplaceAll
    \/ TryInitializeStorage
    \/ TryWriteStorage

Spec == Init /\ [][Next]_vars

(***************************************************************************)
(* Undecodable partitions: the calls on the primary handle of the textual  *)
(* file engine when a caller has written one record, not a collection, at  *)
(* the partition's path                                                    *)
(***************************************************************************)
\* DatabaseIO::try_write_storage of one record, dispatched on the engine of
\* the handle: its document is not that of a collection
try_write_value(db, r, path, env) ==
    IF db.engine = "memory"
    THEN [res |-> Ok(Unit), store |-> Put(db.store, path, to_vec_value(r))]
    ELSE try_write_file(db.store, to_vec_value(r), path, env)

\* DatabaseIO::try_read_storage::<T> for the type of one record, dispatched
\* on the engine of the handle
try_read_value(db, path, env) ==
    IF path \notin DOMAIN db.store
    THEN [res |-> Err(Error("DBNotFound", path, <<>>)), store |-> db.store]
    ELSE LET d == from_slice_value(db.store[path])
         IN  IF d.ok THEN [res |-> d, store |-> db.store]
             ELSE IF db.engine = "memory"
             THEN [res |-> Err(Error("DBCorrupt", path,
                                     <<"DeserializationFailure">> \o d.err)),
                   store |-> db.store]
             ELSE backup_failed_parse(db.store, path, d.err, env)

IoTryWriteValue ==
    \E r \in TxRecords, now \in Times :
        LET w == try_write_value(primary, r, PrimaryPath, Env("none", now))
        IN  OnPrimary("try_write_value", <<>>, Outcome(w.res, w.store, TRUE))

IoTryWriteStorage ==
    \E rs \in TxCollections, now \in Times :
        LET w == try_write_storage(primary, rs, PrimaryPath, Env("none", now))
        IN  OnPrimary("try_write_storage", rs, Outcome(w.res, w.store, TRUE))

IoGetAll ==
    \E fault \in IoFaults, now \in Times :
        LET rd == get_all_with_path(primary, PrimaryPath, Env(fault, now))
        IN  OnPrimary("get_all", <<>>, Outcome(rd.res, rd.store, FALSE))

IoTryInitializeStorage ==
    \E rs \in TxCollections, fault \in IoFaults, now \in Times :
        OnPrimary("try_initialize_storage", rs,
                  try_initialize_storage_with_path(primary, rs, PrimaryPath,
                                                   Env(fault, now)))

IoInsertAll ==
    \E rs \in TxCollections, fault \in IoFaults, now \in Times :
        OnPrimary("insert_all", rs,
                  insert_all_with_path(primary, rs, PrimaryPath, Env(fault, now)))

IoReplaceAll ==
    \E rs \in TxCollections, fault \in IoFaults, now \in Times :
        OnPrimary("replace_all", rs,
                  replace_all_with_path(primary, rs, PrimaryPath, Env(fault, now)))

NextIO ==
    \/ IoTryWriteValue
    \/ IoTryWriteStorage
    \/ IoGetAll
    \/ IoTryInitializeStorage
    \/ IoInsertAll
    \/ IoReplaceAll

SpecIO == Init /\ [][NextIO]_vars

(***************************************************************************)
(* Raw typed storage: try_write_storage and try_read_storage on a handle   *)
(* of a file engine and on a MemoryDB, for collections and for single      *)
(* records kept at one path                                                *)
(***************************************************************************)
\* the handles: the store each one keeps and its engine
RwStores == {"disk", "m1"}
RwEngine(id) == IF id = "disk" THEN "file" ELSE "memory"

\* the path of the raw calls: db.file_path("TestRecord")
RwPaths == {<<"TestRecord">>}

\* JsonDB::new and MemoryDB::new on an empty directory
InitRW ==
    /\ backend = "json"
    /\ heap = [id \in RwStores |-> EmptyStore]
    /\ tx = NoTx
    /\ seeded = NotSeeded
    /\ last = Call("new", CaseOf(EmptyStore, PrimaryPath, <<>>), TRUE, <<>>,
                   HeapOutcome(Ok(Unit), [id \in RwStores |-> EmptyStore], FALSE))
    /\ threads = NoThreads

\* a raw call: its handle, its path, the type it reads or writes and, for a
\* write, the value written
RawCase(id, path, type, value) ==
    [handle |-> id, path |-> path, type |-> type, value |-> value]

OnRaw(op, id, path, type, value, out) ==
    /\ heap' = ToHeap(Outcome(out.res, out.store, op = "try_write_storage"), id).heap
    /\ last' = [Call(op, CaseOf(EmptyStore, path, <<>>), TRUE, <<>>,
                     ToHeap(Outcome(out.res, out.store, op = "try_write_storage"), id))
                EXCEPT !.case = RawCase(id, path, type, value),
                       !.path_kept = At(out.store, path) = At(heap[id], path)]
    /\ UNCHANGED <<backend, tx, seeded, threads>>

RwTryWriteStorage ==
    \E id \in RwStores, path \in RwPaths, rs \in TxCollections,
       fault \in WriteFaults, now \in Times :
        \E out \in {try_write_storage(Handle(RwEngine(id), heap[id]), rs, path,
                                       Env(fault, now))} :
            OnRaw("try_write_storage", id, path, "collection", rs, out)

RwTryWriteValue ==
    \E id \in RwStores, path \in RwPaths, r \in TxRecords,
       fault \in WriteFaults, now \in Times :
        \E out \in {try_write_value(Handle(RwEngine(id), heap[id]), r, path,
                                     Env(fault, now))} :
            OnRaw("try_write_storage", id, path, "value", r, out)

RwTryReadStorage ==
    \E id \in RwStores, path \in RwPaths, fault \in {"none", "copy"}, now \in Times :
        \E out \in {try_read_storage(Handle(RwEngine(id), heap[id]), path,
                                      Env(fault, now))} :
            OnRaw("try_read_storage", id, path, "collection", <<>>, out)

RwGetAll ==
    \E id \in RwStores, path \in RwPaths, fault \in {"none", "copy"}, now \in Times :
        \E out \in {get_all_with_path(Handle(RwEngine(id), heap[id]), path,
                                       Env(fault, now))} :
            OnRaw("get_all", id, path, "collection", <<>>, out)

RwTryReadValue ==
    \E id \in RwStores, path \in RwPaths, fault \in {"none", "copy"}, now \in Times :
        \E out \in {try_read_value(Handle(RwEngine(id), heap[id]), path,
                                    Env(fault, now))} :
            OnRaw("try_read_storage", id, path, "value", <<>>, out)

NextRW ==
    \/ RwTryWriteStorage
    \/ RwTryWriteValue
    \/ RwTryReadStorage
    \/ RwGetAll
    \/ RwTryReadValue

SpecRW == InitRW /\ [][NextRW]_vars

\* tests/tests_records.rs: the partitions of the three record kinds
Kinds == <<"TestRecordPartitioned", "TestRecordPartitioned2", "TestRecordPartitioned3">>

(***************************************************************************)
(* The two layers of JsonDB: DatabaseOps (database/operation.rs), which    *)
(* takes the record kind, and DatabaseOpsCustom                            *)
(* (database/operation_path.rs), which takes the path                      *)
(***************************************************************************)
\* a variant of insert_all that resolves the kind with the extension of the
\* transaction type; C25_LayersAgree tells it from the code's
insert_all_elsewhere(db, T, new_records, env) ==
    insert_all_with_path(db, new_records, file_path("JsonDB-Transaction", T), env)

\* DatabaseOps: every function passes self.file_path(T::PARTITION) on
get_all(db, T, env) ==
    LET rd == get_all_with_path(db, file_path("JsonDB", T), env)
    IN  Outcome(rd.res, rd.store, FALSE)

insert(db, T, new_record, env) ==
    insert_with_path(db, new_record, file_path("JsonDB", T), env)

insert_all(db, T, new_records, env) ==
    insert_all_with_path(db, new_records, file_path("JsonDB", T), env)

update(db, T, updated_record, env) ==
    update_with_path(db, updated_record, file_path("JsonDB", T), env)

update_all(db, T, updated_records, env) ==
    update_all_with_path(db, updated_records, file_path("JsonDB", T), env)

upsert(db, T, upserted_record, env) ==
    upsert_with_path(db, upserted_record, file_path("JsonDB", T), env)

upsert_all(db, T, upserted_records, env) ==
    upsert_all_with_path(db, upserted_records, file_path("JsonDB", T), env)

replace_all(db, T, replaced_records, env) ==
    replace_all_with_path(db, replaced_records, file_path("JsonDB", T), env)

try_initialize_storage(db, T, default_data, env) ==
    try_initialize_storage_with_path(db, default_data, file_path("JsonDB", T), env)

\* the record kinds of the calls: T::PARTITION of two kinds
LayerKinds == {Kinds[1], Kinds[2]}

\* the case of a call of DatabaseOps: the kind, and whether the call of
\* DatabaseOpsCustom with file_path(T::PARTITION), made on the same files,
\* returns the same result and leaves the same files
LayerCase(T, ops, custom) ==
    [kind |-> T, same_res |-> ops.res = custom.res,
     same_store |-> ops.store = custom.store,
     present |-> file_path("JsonDB", T) \in DOMAIN heap["disk"]]

OnLayers(op, T, ops, custom) ==
    /\ heap' = ToHeap(ops, "disk").heap
    /\ last' = [Call(op, CaseOf(EmptyStore, file_path("JsonDB", T), <<>>), TRUE, <<>>,
                     ToHeap(ops, "disk"))
                EXCEPT !.case = LayerCase(T, ops, custom)]
    /\ UNCHANGED <<backend, tx, seeded, threads>>

LayersGetAll ==
    \E T \in LayerKinds, fault \in IoFaults, now \in Times :
        \E ops \in {get_all(primary, T, Env(fault, now))},
           rd \in {get_all_with_path(primary, file_path("JsonDB", T), Env(fault, now))} :
            OnLayers("get_all", T, ops, Outcome(rd.res, rd.store, FALSE))

LayersInsert ==
    \E T \in LayerKinds, r \in TxRecords, fault \in IoFaults, now \in Times :
        \E ops \in {insert(primary, T, r, Env(fault, now))},
           custom \in {insert_with_path(primary, r, file_path("JsonDB", T),
                        Env(fault, now))} :
            OnLayers("insert", T, ops, custom)

LayersInsertAll ==
    \E T \in LayerKinds, rs \in TxCollections, fault \in IoFaults, now \in Times :
        \E ops \in {insert_all(primary, T, rs, Env(fault, now))},
           custom \in {insert_all_with_path(primary, rs, file_path("JsonDB", T),
                        Env(fault, now))} :
            OnLayers("insert_all", T, ops, custom)

LayersUpdate ==
    \E T \in LayerKinds, r \in TxRecords, fault \in IoFaults, now \in Times :
        \E ops \in {update(primary, T, r, Env(fault, now))},
           custom \in {update_with_path(primary, r, file_path("JsonDB", T),
                        Env(fault, now))} :
            OnLayers("update", T, ops, custom)

LayersUpdateAll ==
    \E T \in LayerKinds, rs \in TxCollections, fault \in IoFaults, now \in Times :
        \E ops \in {update_all(primary, T, rs, Env(fault, now))},
           custom \in {update_all_with_path(primary, rs, file_path("JsonDB", T),
                        Env(fault, now))} :
            OnLayers("update_all", T, ops, custom)

LayersUpsert ==
    \E T \in LayerKinds, r \in TxRecords, fault \in IoFaults, now \in Times :
        \E ops \in {upsert(primary, T, r, Env(fault, now))},
           custom \in {upsert_with_path(primary, r, file_path("JsonDB", T),
                        Env(fault, now))} :
            OnLayers("upsert", T, ops, custom)

LayersUpsertAll ==
    \E T \in LayerKinds, rs \in TxCollections, fault \in IoFaults, now \in Times :
        \E ops \in {upsert_all(primary, T, rs, Env(fault, now))},
           custom \in {upsert_all_with_path(primary, rs, file_path("JsonDB", T),
                        Env(fault, now))} :
            OnLayers("upsert_all", T, ops, custom)

LayersReplaceAll ==
    \E T \in LayerKinds, rs \in TxCollections, fault \in IoFaults, now \in Times :
        \E ops \in {replace_all(primary, T, rs, Env(fault, now))},
           custom \in {replace_all_with_path(primary, rs, file_path("JsonDB", T),
                        Env(fault, now))} :
            OnLayers("replace_all", T, ops, custom)

LayersTryInitializeStorage ==
    \E T \in LayerKinds, rs \in TxCollections, fault \in IoFaults, now \in Times :
        \E ops \in {try_initialize_storage(primary, T, rs, Env(fault, now))},
           custom \in {try_initialize_storage_with_path(primary, rs, file_path("JsonDB", T),
                        Env(fault, now))} :
            OnLayers("try_initialize_storage", T, ops, custom)

\* a caller writes one record, not a collection, at the path of a kind
LayersTryWriteValue ==
    \E T \in LayerKinds, r \in TxRecords, now \in Times :
        \E w \in {try_write_value(primary, r, file_path("JsonDB", T), Env("none", now))} :
            /\ heap' = ToHeap(Outcome(w.res, w.store, TRUE), "disk").heap
            /\ last' = Call("try_write_value", CaseOf(EmptyStore, PrimaryPath, <<>>),
                            TRUE, <<>>, ToHeap(Outcome(w.res, w.store, TRUE), "disk"))
            /\ UNCHANGED <<backend, tx, seeded, threads>>

NextLayers ==
    \/ LayersGetAll
    \/ LayersInsert
    \/ LayersInsertAll
    \/ LayersUpdate
    \/ LayersUpdateAll
    \/ LayersUpsert
    \/ LayersUpsertAll
    \/ LayersReplaceAll
    \/ LayersTryInitializeStorage
    \/ LayersTryWriteValue

SpecLayers == Init /\ [][NextLayers]_vars

(***************************************************************************)
(* Transactions: a primary handle of either backend, the transaction       *)
(* handle it hands out, and the calls on both                              *)
(***************************************************************************)
InitTx ==
    /\ backend \in Backends
    /\ heap = FreshHeap
    /\ tx = NoTx
    /\ seeded = NotSeeded
    /\ last = Call("new", CaseOf(EmptyStore, PrimaryPath, <<>>), TRUE, <<>>,
                   HeapOutcome(Ok(Unit), FreshHeap, FALSE))
    /\ threads = NoThreads

\* a variant whose allocations hold a copy of the primary's partition;
\* C20_TransactStartsEmpty tells it from the code's
AllocateCopying(t) ==
    [id \in {"disk", t.records_before, t.records_after} |->
        IF id = "disk" THEN heap["disk"]
        ELSE IF PrimaryPath \in DOMAIN heap["disk"]
        THEN Put(EmptyStore, TxPath, heap["disk"][PrimaryPath])
        ELSE EmptyStore]

\* the heap after TransactionDB::new: the files and the fresh allocations
AllocateFor(t) ==
    [id \in {"disk", t.records_before, t.records_after} |->
        IF id = "disk" THEN heap["disk"] ELSE EmptyStore]

\* DatabaseTransaction::transact; a handle held before is dropped
Transact ==
    /\ tx' = transact(backend)
    /\ heap' = AllocateFor(transact(backend))
    /\ seeded' = NotSeeded
    /\ last' = [op |-> "transact",
                case |-> CaseOf(EmptyStore, TxPath, <<>>),
                clean |-> TRUE, faults |-> <<>>, res |-> Ok(Unit), wrote |-> FALSE,
                changed |-> [primary |-> FALSE, before |-> FALSE, after |-> FALSE],
                holds_arg |-> FALSE, path_kept |-> TRUE, upserted |-> FALSE,
                updated |-> FALSE, appended |-> FALSE]
    /\ UNCHANGED <<backend, threads>>

transaction == Handle("memory", heap[tx_read_source(tx)])

\* a call on the transaction handle: it reads and writes through the
\* handle's try_read_storage and try_write_storage
OnTransaction(op, arg, out) ==
    /\ heap' = ToHeap(out, tx_write_target(tx)).heap
    /\ last' = [Call(op, CaseOf(heap[tx_read_source(tx)], TxPath, arg),
                     Clean(heap[tx_read_source(tx)], TxPath), <<>>,
                     ToHeap(out, tx_write_target(tx)))
                EXCEPT !.holds_arg = HoldsArg(out.store, TxPath, arg),
                       !.path_kept = At(out.store, TxPath)
                                     = At(heap[tx_write_target(tx)], TxPath)]
    /\ UNCHANGED <<backend, tx, seeded, threads>>

\* try_initialize_storage on the transaction handle; the data that
\* populates a before-snapshot that held nothing is the seed
TxTryInitializeStorage ==
    /\ tx.open
    /\ \E rs \in TxCollections :
        LET out == IF backend = "json"
                   THEN JsonDBTransaction_try_initialize_storage_with_path(
                            heap, tx, rs, TxPath)
                   ELSE CborDBTransaction_try_initialize_file(heap, tx, rs, TxPath)
        IN  /\ heap' = out.heap
            /\ last' = [Call("tx_try_initialize_storage",
                             CaseOf(heap[tx_read_source(tx)], TxPath, rs),
                             Clean(heap[tx_read_source(tx)], TxPath), <<>>, out)
                        EXCEPT !.holds_arg =
                                   HoldsArg(out.heap[tx_read_source(tx)], TxPath, rs),
                               !.path_kept =
                                   At(out.heap[tx_write_target(tx)], TxPath)
                                   = At(heap[tx_write_target(tx)], TxPath)]
            /\ seeded' = IF /\ TxPath \notin DOMAIN heap[tx_before_source(tx)]
                            /\ TxPath \in DOMAIN out.heap[tx_before_source(tx)]
                         THEN [set |-> TRUE, data |-> rs]
                         ELSE seeded
            /\ UNCHANGED <<backend, tx, threads>>

TxGetAll ==
    /\ tx.open
    /\ LET rd == get_all_with_path(transaction, TxPath, NoEnv)
       IN  OnTransaction("tx_get_all", <<>>, Outcome(rd.res, rd.store, FALSE))

\* transaction/operation.rs get_all_before
TxGetAllBefore ==
    /\ tx.open
    /\ LET rd == memory_try_read(heap[tx_before_source(tx)], TxPath)
       IN  /\ last' = Call("tx_get_all_before",
                           CaseOf(heap[tx_before_source(tx)], TxPath, <<>>),
                           Clean(heap[tx_before_source(tx)], TxPath), <<>>,
                           HeapOutcome(rd.res, heap, FALSE))
           /\ UNCHANGED <<backend, heap, tx, seeded, threads>>

TxInsert ==
    /\ tx.open
    /\ \E r \in TxRecords :
        OnTransaction("tx_insert", <<r>>,
                      insert_with_path(transaction, r, TxPath, NoEnv))

TxUpdate ==
    /\ tx.open
    /\ \E r \in TxRecords :
        OnTransaction("tx_update", <<r>>,
                      update_with_path(transaction, r, TxPath, NoEnv))

TxUpsert ==
    /\ tx.open
    /\ \E r \in TxRecords :
        OnTransaction("tx_upsert", <<r>>,
                      upsert_with_path(transaction, r, TxPath, NoEnv))

TxReplaceAll ==
    /\ tx.open
    /\ \E rs \in TxCollections :
        OnTransaction("tx_replace_all", rs,
                      replace_all_with_path(transaction, rs, TxPath, NoEnv))

TxTryWriteStorage ==
    /\ tx.open
    /\ \E rs \in TxCollections :
        LET w == try_write_storage(transaction, rs, TxPath, NoEnv)
        IN  OnTransaction("tx_try_write_storage", rs, Outcome(w.res, w.store, FALSE))

\* the calls on the primary handle while a transaction may be open
PrimaryInsertAll == InsertAllOf(TxCollections)
PrimaryUpdateAll == UpdateAllOf(TxCollections)
PrimaryReplaceAll == ReplaceAllOf(TxCollections)
PrimaryTryInitializeStorage == TryInitializeStorageOf(TxCollections)

\* DatabaseTransaction::try_commit; the first fault answers the write of
\* the commit, the second the write of the rollback
TryCommit ==
    /\ tx.open
    /\ \E fault1 \in Faults, fault2 \in Faults, now \in Times :
        LET out == IF backend = "json"
                   THEN try_commit_with_path(heap, tx, TxPath, PrimaryPath,
                                             Env(fault1, now), Env(fault2, now))
                   ELSE CborDB_try_commit(heap, tx, TxPath, PrimaryPath,
                                          Env(fault1, now), Env(fault2, now))
        IN  /\ heap' = out.heap
            /\ last' = Call("try_commit",
                            CaseOf(heap[tx_read_source(tx)], TxPath, <<>>),
                            Clean(heap[tx_read_source(tx)], TxPath),
                            <<fault1, fault2>>, out)
            /\ UNCHANGED <<backend, tx, seeded, threads>>

\* DatabaseTransaction::try_rollback
TryRollback ==
    /\ tx.open
    /\ \E fault \in Faults, now \in Times :
        LET out == IF backend = "json"
                   THEN try_rollback_with_path(heap, tx, TxPath, PrimaryPath,
                                               Env(fault, now))
                   ELSE CborDB_try_rollback(heap, tx, TxPath, PrimaryPath,
                                            Env(fault, now))
        IN  /\ heap' = out.heap
            /\ last' = Call("try_rollback",
                            CaseOf(heap[tx_before_source(tx)], TxPath, <<>>),
                            Clean(heap[tx_before_source(tx)], TxPath),
                            <<fault>>, out)
            /\ UNCHANGED <<backend, tx, seeded, threads>>

NextTx ==
    \/ Transact
    \/ TxTryInitializeStorage
    \/ TxGetAll
    \/ TxGetAllBefore
    \/ TxInsert
    \/ TxUpdate
    \/ TxUpsert
    \/ TxReplaceAll
    \/ TxTryWriteStorage
    \/ PrimaryInsertAll
    \/ PrimaryUpdateAll
    \/ PrimaryReplaceAll
    \/ PrimaryTryInitializeStorage
    \/ TryCommit
    \/ TryRollback

SpecTx == InitTx /\ [][NextTx]_vars

(***************************************************************************)
(* Calls on two partitions: the primary handle and one JsonDB transaction, *)
(* each call addressed to the partition of one record kind                 *)
(***************************************************************************)
\* the paths a call for the kind T addresses: file_path(T::PARTITION) of
\* the primary and of the transaction
PrimaryPathOf(T) == file_path(PrimaryName("json"), T)
TxPathOf(T) == file_path(TransactionName("json"), T)

\* the faults of the calls on two partitions
FrameFaults == {"none", "write"}

\* the records and the collections passed to the calls on two partitions
FrameRecords == {r \in TxRecords : r.data = 1}
FrameCollections == {<<r>> : r \in FrameRecords}

OnFrame(op, T, faults, out) ==
    /\ heap' = out.heap
    /\ last' = [Call(op, CaseOf(EmptyStore, PrimaryPathOf(T), <<>>), TRUE, faults, out)
                EXCEPT !.case = [kind |-> T]]
    /\ UNCHANGED <<backend, tx, seeded, threads>>

FrameGetAll ==
    \E T \in LayerKinds, fault \in {"none", "copy"}, now \in Times :
        \E o \in {get_all(primary, T, Env(fault, now))} :
            OnFrame("get_all", T, <<fault>>, ToHeap(o, "disk"))

FrameInsert ==
    \E T \in LayerKinds, r \in FrameRecords, fault \in FrameFaults, now \in Times :
        \E o \in {insert(primary, T, r, Env(fault, now))} :
            OnFrame("insert", T, <<fault>>, ToHeap(o, "disk"))

FrameUpdate ==
    \E T \in LayerKinds, r \in FrameRecords, fault \in FrameFaults, now \in Times :
        \E o \in {update(primary, T, r, Env(fault, now))} :
            OnFrame("update", T, <<fault>>, ToHeap(o, "disk"))

FrameReplaceAll ==
    \E T \in LayerKinds, rs \in FrameCollections, fault \in FrameFaults, now \in Times :
        \E o \in {replace_all(primary, T, rs, Env(fault, now))} :
            OnFrame("replace_all", T, <<fault>>, ToHeap(o, "disk"))

FrameTryInitializeStorage ==
    \E T \in LayerKinds, fault \in FrameFaults, now \in Times :
        \E o \in {try_initialize_storage(primary, T, <<>>, Env(fault, now))} :
            OnFrame("try_initialize_storage", T, <<fault>>, ToHeap(o, "disk"))

\* a raw write of one record at the partition's path
FrameTryWriteValue ==
    \E T \in LayerKinds, r \in FrameRecords, fault \in FrameFaults, now \in Times :
        \E w \in {try_write_value(primary, r, PrimaryPathOf(T), Env(fault, now))} :
            OnFrame("try_write_storage", T, <<fault>>,
                    ToHeap(Outcome(w.res, w.store, TRUE), "disk"))

\* transact, once
FrameTransact ==
    /\ ~tx.open
    /\ backend = "json"
    /\ Transact

FrameTxTryInitializeStorage ==
    /\ tx.open
    /\ \E T \in LayerKinds, rs \in FrameCollections :
        \E out \in {JsonDBTransaction_try_initialize_storage_with_path(
                        heap, tx, rs, TxPathOf(T))} :
            OnFrame("tx_try_initialize_storage", T, <<>>, out)

FrameTxReplaceAll ==
    /\ tx.open
    /\ \E T \in LayerKinds, rs \in FrameCollections :
        \E o \in {replace_all_with_path(transaction, rs, TxPathOf(T), NoEnv)} :
            OnFrame("tx_replace_all", T, <<>>, ToHeap(o, tx_write_target(tx)))

FrameTryCommit ==
    /\ tx.open
    /\ \E T \in LayerKinds, fault1 \in FrameFaults, fault2 \in FrameFaults, now \in Times :
        \E out \in {try_commit_with_path(heap, tx, TxPathOf(T), PrimaryPathOf(T),
                                         Env(fault1, now), Env(fault2, now))} :
            OnFrame("try_commit", T, <<fault1, fault2>>, out)

FrameTryRollback ==
    /\ tx.open
    /\ \E T \in LayerKinds, fault \in FrameFaults, now \in Times :
        \E out \in {try_rollback_with_path(heap, tx, TxPathOf(T), PrimaryPathOf(T),
                                           Env(fault, now))} :
            OnFrame("try_rollback", T, <<fault>>, out)

NextFrame ==
    \/ FrameGetAll
    \/ FrameInsert
    \/ FrameUpdate
    \/ FrameReplaceAll
    \/ FrameTryInitializeStorage
    \/ FrameTryWriteValue
    \/ FrameTransact
    \/ FrameTxTryInitializeStorage
    \/ FrameTxReplaceAll
    \/ FrameTryCommit
    \/ FrameTryRollback

SpecFrame == Init /\ [][NextFrame]_vars

(***************************************************************************)
(* Composite operations over a group of record kinds (record/operatable.rs,*)
(* database/operation_operatable.rs)                                       *)
(***************************************************************************)
\* the collections passed for one kind of a group
GroupCollections == {<<r>> : r \in TxRecords}

\* the groups of collections OperatablePartitioned is implemented for:
\* one kind, a pair and a triple
GroupArgs ==
    {<<a>> : a \in GroupCollections}
    \cup {<<a, b>> : a \in GroupCollections, b \in GroupCollections}
    \cup {<<a, b, c>> : a \in GroupCollections, b \in GroupCollections,
                        c \in GroupCollections}

GroupOps == {"insert_all", "update_all", "replace_all", "try_initialize_storage"}

KindPath(k) == file_path(PrimaryName("json"), Kinds[k])

\* the call of DatabaseOps a composite operation makes for one kind
single_operation(op, db, records, path, env) ==
    CASE op = "insert_all" -> insert_all_with_path(db, records, path, env)
      [] op = "update_all" -> update_all_with_path(db, records, path, env)
      [] op = "replace_all" -> replace_all_with_path(db, records, path, env)
      [] op = "try_initialize_storage" ->
            try_initialize_storage_with_path(db, records, path, env)

\* impl OperatablePartitioned for R1: every function is todo!()
operatable_R1(op, store, args, envs) ==
    Outcome(Panic("not yet implemented"), store, FALSE)

\* impl OperatablePartitioned for (R1, R2)
operatable_R1_R2(op, store, args, envs) ==
    LET o1 == single_operation(op, Handle("file", store), args[1], KindPath(1), envs[1])
    IN  IF ~o1.res.ok THEN o1
        ELSE single_operation(op, Handle("file", o1.store), args[2], KindPath(2), envs[2])

\* impl OperatablePartitioned for (R1, R2, R3)
operatable_R1_R2_R3(op, store, args, envs) ==
    LET o1 == single_operation(op, Handle("file", store), args[1], KindPath(1), envs[1])
    IN  IF ~o1.res.ok THEN o1
        ELSE LET o2 == single_operation(op, Handle("file", o1.store), args[2],
                                        KindPath(2), envs[2])
             IN  IF ~o2.res.ok THEN o2
                 ELSE single_operation(op, Handle("file", o2.store), args[3],
                                       KindPath(3), envs[3])

\* DatabaseOpsOperatable::*_with_operatable: R::operation(self, ...)
with_operatable(op, store, args, envs) ==
    IF Len(args) = 1 THEN operatable_R1(op, store, args, envs)
    ELSE IF Len(args) = 2 THEN operatable_R1_R2(op, store, args, envs)
    ELSE operatable_R1_R2_R3(op, store, args, envs)

\* the environments of the calls of a group: the write of kind `at` is
\* refused (no write is when `at` is 0)
EnvsOf(at, now) ==
    [k \in 1..3 |-> Env(IF k = at THEN "write" ELSE "none", now)]

\* what the calls of DatabaseOps would do one by one, each on the files as
\* they were when the composite operation was called
SingleOf(op, store, args, envs) ==
    [k \in 1..Len(args) |->
        single_operation(op, Handle("file", store), args[k], KindPath(k), envs[k])]

\* the first kind whose call of DatabaseOps fails, 0 when there is none
FirstFailing(singles) ==
    LET failing == {k \in DOMAIN singles : ~singles[k].res.ok}
    IN  IF failing = {} THEN 0 ELSE CHOOSE k \in failing : \A j \in failing : k <= j

\* the case of a composite call: the number of kinds, the first kind
\* whose call fails and its result, the kinds whose partition holds what
\* the kind's call leaves, and the kinds whose partition is as it was
GroupCall(store, singles, failed, out) ==
    [arity |-> Len(singles),
     failed |-> failed,
     single_res |-> IF failed = 0 THEN Ok(Unit) ELSE singles[failed].res,
     persisted |-> {k \in DOMAIN singles :
                      At(out.store, KindPath(k)) = At(singles[k].store, KindPath(k))},
     kept |-> {k \in DOMAIN singles :
                 At(out.store, KindPath(k)) = At(store, KindPath(k))}]

WithOperatable ==
    \E op \in GroupOps, args \in GroupArgs, at \in 0..3, now \in Times :
        \E out \in {with_operatable(op, heap["disk"], args, EnvsOf(at, now))},
           singles \in {SingleOf(op, heap["disk"], args, EnvsOf(at, now))} :
            /\ heap' = ToHeap(out, "disk").heap
            /\ last' = [Call("with_operatable", CaseOf(EmptyStore, KindPath(1), <<>>),
                             TRUE, <<>>, ToHeap(out, "disk"))
                        EXCEPT !.case = GroupCall(heap["disk"], singles,
                                                  FirstFailing(singles), out)]
            /\ UNCHANGED <<backend, tx, seeded, threads>>

\* the groups get_all is called for: the lists of one, two or three
\* different kinds, in every order
KindLists ==
    {ks \in UNION {[1..n -> {Kinds[1], Kinds[2], Kinds[3]}] : n \in 1..3} :
        \A i, j \in DOMAIN ks : ks[i] = ks[j] => i = j}

\* impl OperatablePartitioned for R1: get_all is todo!()
operatable_R1_get_all(store, kinds, env) ==
    Outcome(Panic("not yet implemented"), store, FALSE)

\* impl OperatablePartitioned for (R1, R2): get_all
operatable_R1_R2_get_all(store, kinds, env) ==
    LET g1 == get_all(Handle("file", store), kinds[1], env)
        g2 == get_all(Handle("file", g1.store), kinds[2], env)
    IN  IF ~g1.res.ok THEN g1
        ELSE IF ~g2.res.ok THEN g2
        ELSE Outcome(Ok(<<g1.res.val, g2.res.val>>), g2.store, FALSE)

\* impl OperatablePartitioned for (R1, R2, R3): get_all
operatable_R1_R2_R3_get_all(store, kinds, env) ==
    LET g1 == get_all(Handle("file", store), kinds[1], env)
        g2 == get_all(Handle("file", g1.store), kinds[2], env)
        g3 == get_all(Handle("file", g2.store), kinds[3], env)
    IN  IF ~g1.res.ok THEN g1
        ELSE IF ~g2.res.ok THEN g2
        ELSE IF ~g3.res.ok THEN g3
        ELSE Outcome(Ok(<<g1.res.val, g2.res.val, g3.res.val>>), g3.store, FALSE)

\* DatabaseOpsOperatable::get_all_with_operatable: R::get_all(self)
get_all_with_operatable(store, kinds, env) ==
    IF Len(kinds) = 1 THEN operatable_R1_get_all(store, kinds, env)
    ELSE IF Len(kinds) = 2 THEN operatable_R1_R2_get_all(store, kinds, env)
    ELSE operatable_R1_R2_R3_get_all(store, kinds, env)

\* the case of a composite get_all: the kinds of the group and what get_all
\* returns for each of them on the files as they were
GroupGetAllCase(store, kinds, env) ==
    [arity |-> Len(kinds),
     kinds |-> kinds,
     singles |-> [i \in DOMAIN kinds |->
                     get_all(Handle("file", store), kinds[i], env).res]]

GetAllWithOperatable ==
    \E kinds \in KindLists, now \in Times :
        \E out \in {get_all_with_operatable(heap["disk"], kinds, Env("none", now))} :
            /\ heap' = ToHeap(out, "disk").heap
            /\ last' = [Call("get_all_with_operatable",
                             CaseOf(EmptyStore, KindPath(1), <<>>),
                             TRUE, <<>>, ToHeap(out, "disk"))
                        EXCEPT !.case = GroupGetAllCase(heap["disk"], kinds,
                                                        Env("none", now))]
            /\ UNCHANGED <<backend, tx, seeded, threads>>

NextGroup ==
    \/ WithOperatable
    \/ GetAllWithOperatable

SpecGroup == Init /\ [][NextGroup]_vars

(***************************************************************************)
(* Threads on one MemoryDB (engine/memorydb.rs: the map is behind an       *)
(* Arc<RwLock>; every try_read_* holds the read lock and every try_write_* *)
(* the write lock for the one access, so each is a step of its own)        *)
(***************************************************************************)
MemPath == file_path("MemoryDB", PARTITION)

\* MemoryDB::new followed by try_initialize_storage of the empty collection
InitMem ==
    /\ backend = "json"
    /\ heap = [id \in {"disk", "m1"} |->
                  IF id = "m1" THEN Put(EmptyStore, MemPath, to_vec(<<>>))
                  ELSE EmptyStore]
    /\ tx = NoTx
    /\ seeded = NotSeeded
    /\ last = Call("new", CaseOf(EmptyStore, MemPath, <<>>), TRUE, <<>>,
                   HeapOutcome(Ok(Unit), FreshHeap, FALSE))
    /\ threads = NoThreads

\* a thread calls insert: insert_all_with_path reads the stored records
\* (get_all_with_path, under the read lock)
ThreadRead(t) ==
    /\ threads[t].pc \in {"idle", "done"}
    /\ \E r \in Records :
        LET rd == get_all_with_path(Handle("memory", heap["m1"]), MemPath, NoEnv)
        IN  threads' = [threads EXCEPT ![t] =
                IF rd.res.ok
                THEN [pc |-> "read", new_records |-> <<r>>,
                      records |-> rd.res.val, res |-> Ok(Unit)]
                ELSE [pc |-> "done", new_records |-> <<r>>,
                      records |-> <<>>, res |-> rd.res]]
    /\ UNCHANGED <<backend, heap, tx, seeded, last>>

\* the thread goes on with the records it has read: the check, and the
\* write of the whole collection (try_write_storage, under the write lock)
ThreadWrite(t) ==
    /\ threads[t].pc = "read"
    /\ LET out == insert_all_after_read(Handle("memory", heap["m1"]),
                                        threads[t].records, threads[t].new_records,
                                        MemPath, NoEnv)
       IN  /\ heap' = [heap EXCEPT !["m1"] = out.store]
           /\ threads' = [threads EXCEPT ![t].pc = "done", ![t].res = out.res]
    /\ UNCHANGED <<backend, tx, seeded, last>>

NextMem ==
    \/ \E t \in Threads : ThreadRead(t)
    \/ \E t \in Threads : ThreadWrite(t)

SpecMem == InitMem /\ [][NextMem]_vars

(***************************************************************************)
(* Threads that call insert, update and replace_all on one MemoryDB        *)
(***************************************************************************)
\* a thread outside a call, with the result of its last call
Returned(res) ==
    [pc |-> "idle", op |-> "none", new_records |-> <<>>, records |-> <<>>, res |-> res]

InitMemOps ==
    /\ backend = "json"
    /\ heap = [id \in {"disk", "m1"} |->
                  IF id = "m1" THEN Put(EmptyStore, MemPath, to_vec(<<>>))
                  ELSE EmptyStore]
    /\ tx = NoTx
    /\ seeded = NotSeeded
    /\ last = Call("new", CaseOf(EmptyStore, MemPath, <<>>), TRUE, <<>>,
                   HeapOutcome(Ok(Unit), FreshHeap, FALSE))
    /\ threads = [t \in Threads |-> Returned(Ok(Unit))]

\* a thread calls insert or update: the call reads the stored records
\* (get_all_with_path, under the read lock, released when the read returns)
CallReads(t) ==
    /\ threads[t].pc = "idle"
    /\ \E op \in {"insert", "update"}, r \in Records :
        LET rd == get_all_with_path(Handle("memory", heap["m1"]), MemPath, NoEnv)
        IN  threads' = [threads EXCEPT ![t] =
                IF rd.res.ok
                THEN [pc |-> "read", op |-> op, new_records |-> <<r>>,
                      records |-> rd.res.val, res |-> Ok(Unit)]
                ELSE Returned(rd.res)]
    /\ UNCHANGED <<backend, heap, tx, seeded, last>>

\* the thread goes on with the records it has read: the check of its call
\* and the write of the whole collection (try_write_storage, under the
\* write lock)
CallWrites(t) ==
    /\ threads[t].pc = "read"
    /\ \E out \in {IF threads[t].op = "insert"
                    THEN insert_all_after_read(Handle("memory", heap["m1"]),
                                               threads[t].records,
                                               threads[t].new_records, MemPath, NoEnv)
                    ELSE update_all_after_read(Handle("memory", heap["m1"]),
                                               threads[t].records,
                                               threads[t].new_records, MemPath, NoEnv)} :
        /\ heap' = [heap EXCEPT !["m1"] = out.store]
        /\ threads' = [threads EXCEPT ![t] = Returned(out.res)]
    /\ UNCHANGED <<backend, tx, seeded, last>>

\* a thread calls replace_all: no read, the check of the argument and one
\* write under the write lock
CallReplaceAll(t) ==
    /\ threads[t].pc = "idle"
    /\ \E rs \in Collections :
        \E out \in {replace_all_with_path(Handle("memory", heap["m1"]), rs,
                                          MemPath, NoEnv)} :
            /\ heap' = [heap EXCEPT !["m1"] = out.store]
            /\ threads' = [threads EXCEPT ![t] = Returned(out.res)]
    /\ UNCHANGED <<backend, tx, seeded, last>>

NextMemOps ==
    \/ \E t \in Threads : CallReads(t)
    \/ \E t \in Threads : CallWrites(t)
    \/ \E t \in Threads : CallReplaceAll(t)

SpecMemOps == InitMemOps /\ [][NextMemOps]_vars

(***************************************************************************)
(* Properties of the CRUD engine (specification Spec)                      *)
(***************************************************************************)
CrudOps == {"insert", "insert_all", "update", "update_all",
            "upsert", "upsert_all", "replace_all"}

IsKind(res, kind) == ~res.ok /\ res.err.kind = kind

IsOperationFailure(res) == ~res.ok /\ res.err.kind = "DBOperationFailure"

Untouched(c) == ~c.primary /\ ~c.before /\ ~c.after

\* C1: a call of insert, insert_all, update, update_all, upsert, upsert_all
\* or replace_all made on a partition whose records have pairwise-distinct
\* unique values (or that is absent) leaves such a partition, whether the
\* call succeeds or fails; so get_all never returns two records with equal
\* unique values after any sequence of these calls.
C1_UniquenessKept ==
    (last.op \in CrudOps /\ last.clean) => Clean(heap["disk"], PrimaryPath)

\* a successful insert_all has left two records in the partition
C1_Witness ==
    /\ last.op = "insert_all"
    /\ last.clean
    /\ last.res.ok
    /\ last.changed.primary
    /\ Readable(heap["disk"], PrimaryPath)
    /\ Len(Stored(heap["disk"], PrimaryPath)) = 2

\* C8 as claimed: an update or update_all on a readable partition with a
\* record whose unique value is not stored returns an operation failure,
\* does not write and leaves the partition as it was.
C8_UpdateMissingRejected ==
    (/\ last.op \in {"update", "update_all"}
     /\ last.case.readable
     /\ last.case.some_absent)
    => (/\ IsOperationFailure(last.res)
        /\ ~last.wrote
        /\ Untouched(last.changed))

\* C9: an insert or insert_all on a readable partition with a record whose
\* unique value is already stored returns an operation failure that reports
\* duplicates, does not write and leaves the partition as it was.
C9_InsertExistingRejected ==
    (/\ last.op \in {"insert", "insert_all"}
     /\ last.case.readable
     /\ last.case.some_stored)
    => (/\ IsOperationFailure(last.res)
        /\ last.res.err.reason[1] = "duplicate when inserting"
        /\ ~last.wrote
        /\ Untouched(last.changed))

\* an insert_all of one stored and one new unique value was rejected
C9_Witness ==
    /\ last.op = "insert_all"
    /\ last.case.readable
    /\ last.case.some_stored
    /\ last.case.some_absent
    /\ last.case.first_dup = 0
    /\ ~last.res.ok

C10_ReplaceRepeatedRejected ==
    (last.op = "replace_all" /\ last.case.first_dup # 0)
    => (/\ IsOperationFailure(last.res)
        /\ last.res.err.reason = <<"duplicated when replacing",
                                   ToString(last.case.first_dup)>>
        /\ ~last.wrote
        /\ Untouched(last.changed))

\* a replace_all that repeats a unique value was rejected on an absent path
C10_Witness ==
    /\ last.op = "replace_all"
    /\ last.case.first_dup # 0
    /\ ~last.res.ok
    /\ PrimaryPath \notin DOMAIN heap["disk"]

\* C13 as claimed: the engine checks the unique values on every write, so
\* a call of try_initialize_storage or of a CRUD operation made on an absent
\* partition or one with pairwise-distinct unique values leaves such a
\* partition, whatever records the caller passes.
C13_EveryWriteKeepsUniqueness ==
    (last.op \in CrudOps \cup {"try_initialize_storage"} /\ last.clean)
    => Clean(heap["disk"], PrimaryPath)

\* C14: try_initialize_storage on an absent partition writes the default
\* and succeeds (or fails with the failure of the write and leaves the
\* partition absent); on a readable partition it succeeds without a write
\* and leaves the stored data as it was, whatever default is passed.
C14_InitializeIdempotent ==
    last.op = "try_initialize_storage"
    => /\ last.case.readable
            => (last.res.ok /\ ~last.wrote /\ Untouched(last.changed))
       /\ ~last.case.present
            => \/ last.res.ok /\ last.holds_arg
               \/ /\ ~last.res.ok
                  /\ last.res.err.kind = "IOWriteFailure"
                  /\ Untouched(last.changed)

\* a try_initialize_storage with a default other than the stored records
\* returned Ok on a partition that holds records, and changed nothing
C14_Witness ==
    /\ last.op = "try_initialize_storage"
    /\ last.case.readable
    /\ last.case.some_absent
    /\ last.res.ok
    /\ ~last.holds_arg
    /\ Len(Stored(heap["disk"], PrimaryPath)) > 0

\* C16: replace_all of a collection without a repeated unique value, the
\* empty collection included, succeeds and get_all then returns that
\* collection (or fails with the failure of the write and changes nothing).
C16_ReplaceTotal ==
    (last.op = "replace_all" /\ last.case.first_dup = 0)
    => \/ last.res.ok /\ last.holds_arg
       \/ /\ ~last.res.ok
          /\ last.res.err.kind = "IOWriteFailure"
          /\ Untouched(last.changed)

\* a replace_all of two records succeeded on a partition that held other
\* data, and get_all returns the two records
C16_Witness ==
    /\ last.op = "replace_all"
    /\ last.case.readable
    /\ last.res.ok
    /\ last.changed.primary
    /\ last.holds_arg
    /\ Len(Stored(heap["disk"], PrimaryPath)) = 2

\* C17: upsert and upsert_all on a partition without repeated unique
\* values leave, for every unique value upserted, exactly one record with
\* it, holding the data of the last upserted record of that value (update
\* when the value was stored, insert when it was not), and every record of
\* another unique value as it was
C17_UpsertReplacesOrAppends ==
    (/\ last.op \in {"upsert", "upsert_all"}
     /\ last.case.readable
     /\ last.clean
     /\ last.res.ok)
    => last.upserted

\* an upsert of a stored unique value with other data has succeeded: the
\* partition holds one record of that value, with the data upserted last
C17_Witness ==
    /\ last.op = "upsert"
    /\ last.case.some_stored
    /\ last.clean
    /\ last.res.ok
    /\ last.changed.primary
    /\ last.upserted
    /\ Len(Stored(heap["disk"], PrimaryPath)) = 2

C28_UpdateRepeatedRejected ==
    (/\ last.op = "update_all"
     /\ last.case.readable
     /\ ~last.case.some_absent
     /\ last.case.first_dup # 0)
    => (/\ ~last.res.ok
        /\ ~last.wrote
        /\ Untouched(last.changed))

\* C32 as claimed: no update or update_all ends at the assertion "All
\* records should exist as it was checked before.": once the existence
\* check has passed, every update record finds its stored record
C32_LookupAfterCheckSucceeds ==
    last.op \in {"update", "update_all"}
    => ~(~last.res.ok /\ last.res.err.kind = "panic")

\* C29: a successful update or update_all of records with pairwise-distinct
\* unique values, on a partition without repeated unique values, leaves a
\* collection of the same length with the same unique values in the same
\* order, in which every record of an updated unique value is the update
\* record of that value and every other record is as it was; what is left
\* is determined by the set of update records, not by their order
C29_UpdateInPlace ==
    (/\ last.op \in {"update", "update_all"}
     /\ last.res.ok
     /\ last.clean
     /\ last.case.first_dup = 0)
    => /\ last.updated
       /\ last.wrote

\* update_all has changed the data of the second record of a partition and
\* left the first record in its place
C29_Witness ==
    /\ last.op = "update_all"
    /\ last.res.ok
    /\ last.clean
    /\ last.case.first_dup = 0
    /\ last.updated
    /\ last.changed.primary
    /\ Len(Stored(heap["disk"], PrimaryPath)) = 2
    /\ Stored(heap["disk"], PrimaryPath)[1].id = 2
    /\ Stored(heap["disk"], PrimaryPath)[2] = [id |-> 1, data |-> 2]

\* C30: a successful insert or insert_all leaves the records that were
\* stored, unchanged and in their order, followed by the new records in the
\* order they were passed
C30_InsertAppends ==
    (last.op \in {"insert", "insert_all"} /\ last.res.ok)
    => /\ last.appended
       /\ last.wrote

\* an insert_all has added a record after a stored one
C30_Witness ==
    /\ last.op = "insert_all"
    /\ last.res.ok
    /\ last.case.readable
    /\ last.appended
    /\ last.changed.primary
    /\ Len(Stored(heap["disk"], PrimaryPath)) = 2

\* C15: try_initialize_storage on a partition whose bytes do not decode
\* returns the failure of the read (the corruption report, or the failure of
\* the backup copy when the backup could not be made), does not call the
\* write of the default, and leaves the bytes at the partition's path as
\* they were (checked under SpecIO)
C15_InitializeKeepsUndecodable ==
    (last.op = "try_initialize_storage" /\ last.case.present /\ ~last.case.readable)
    => /\ ~last.res.ok
       /\ last.res.err.kind \in {"DBCorrupt", "IOCopyFailure"}
       /\ last.res.err.kind = "IOCopyFailure" => Untouched(last.changed)
       /\ ~last.wrote
       /\ last.path_kept
       /\ PrimaryPath \in DOMAIN heap["disk"]
       /\ ~Readable(heap["disk"], PrimaryPath)

\* try_initialize_storage has met an undecodable partition, reported the
\* corruption, and the partition is still there, undecodable
C15_Witness ==
    /\ last.op = "try_initialize_storage"
    /\ last.case.present
    /\ ~last.case.readable
    /\ last.res = Err(Error("DBCorrupt", PrimaryPath,
                            <<"DeserializationFailure", "invalid document">>))
    /\ last.changed.primary
    /\ last.path_kept
    /\ ~Readable(heap["disk"], PrimaryPath)

\* C31: replace_all with a collection of pairwise-distinct unique values
\* does not depend on what the partition holds (nothing, a collection, bytes
\* that do not decode): it returns Ok and get_all returns the collection
\* passed, and no other file appears (no backup: the stored bytes are not
\* read); or the operating system refuses the write, the call returns that
\* failure and no file changes (checked under SpecIO)
C31_ReplaceIgnoresStored ==
    [][(last'.op = "replace_all" /\ last'.case.first_dup = 0)
       => \/ /\ last'.res.ok
             /\ last'.wrote
             /\ last'.holds_arg
             /\ heap'["disk"] = Put(heap["disk"], PrimaryPath, heap'["disk"][PrimaryPath])
          \/ /\ ~last'.res.ok
             /\ last'.res.err.kind = "IOWriteFailure"
             /\ last'.wrote
             /\ heap' = heap]_vars

\* replace_all has replaced bytes that do not decode by a collection of one
\* record, and no backup of the old bytes was made
C31_Witness ==
    /\ last.op = "replace_all"
    /\ last.case.present
    /\ ~last.case.readable
    /\ last.res.ok
    /\ last.holds_arg
    /\ Len(Stored(heap["disk"], PrimaryPath)) = 1
    /\ DOMAIN heap["disk"] = {PrimaryPath}

(***************************************************************************)
(* Properties of transactions (specification SpecTx)                       *)
(***************************************************************************)
PrimaryOps == {"get_all", "insert", "insert_all", "update", "update_all",
               "upsert", "upsert_all", "replace_all",
               "try_initialize_storage", "try_write_storage"}

TxMutators == {"tx_insert", "tx_update", "tx_upsert", "tx_replace_all",
               "tx_try_write_storage"}

TxOps == TxMutators \cup {"tx_get_all", "tx_get_all_before",
                          "tx_try_initialize_storage"}

\* the needle is a contiguous part of the text
Embeds(text, needle) ==
    \E i \in 1..(Len(text) - Len(needle) + 1) :
        SubSeq(text, i, i + Len(needle) - 1) = needle

\* the error try_write_file answers under a fault
WriteError(fault) ==
    try_write_file(EmptyStore, <<>>, PrimaryPath, Env(fault, "t1")).res.err

\* C2 as claimed: after a successful try_rollback the primary's partition
\* holds the before-snapshot, which is the data the transaction was seeded
\* with.
C2_RollbackRestoresSeed ==
    (last.op = "try_rollback" /\ last.res.ok /\ seeded.set)
    => (/\ Readable(heap["disk"], PrimaryPath)
        /\ Stored(heap["disk"], PrimaryPath) = seeded.data
        /\ Stored(heap[tx.records_before], TxPath) = seeded.data)

\* C3: after a successful try_commit, get_all on the primary returns the
\* after-snapshot the transaction held when it was committed.
C3_CommitPublishesAfter ==
    (last.op = "try_commit" /\ last.res.ok)
    => (/\ Readable(heap["disk"], PrimaryPath)
        /\ Readable(heap[tx.records_after], TxPath)
        /\ Stored(heap["disk"], PrimaryPath) = Stored(heap[tx.records_after], TxPath))

\* a commit changed the primary's partition to a non-empty after-snapshot
C3_Witness ==
    /\ last.op = "try_commit"
    /\ last.res.ok
    /\ last.changed.primary
    /\ Len(Stored(heap["disk"], PrimaryPath)) > 0

\* C4 as claimed: for the transaction type of every backend, insert, update,
\* upsert, replace_all and a raw write on the transaction handle leave the
\* before-snapshot as it was.
C4_BeforeSnapshotKept ==
    last.op \in TxMutators => ~last.changed.before

\* C5: a call on the primary changes neither snapshot of the transaction, a
\* call on the transaction handle does not change the primary, and the
\* primary changes only by its own calls, try_commit or try_rollback.
C5_Isolation ==
    /\ last.op \in PrimaryOps => (~last.changed.before /\ ~last.changed.after)
    /\ last.op \in TxOps => ~last.changed.primary
    /\ last.changed.primary => last.op \in PrimaryOps \cup {"try_commit", "try_rollback"}

\* a successful insert on the transaction handle changed the after-snapshot
\* next to a primary that holds a partition
C5_Witness ==
    /\ last.op = "tx_insert"
    /\ last.res.ok
    /\ last.changed.after
    /\ Readable(heap["disk"], PrimaryPath)

\* C6: when the write of a commit fails and the rollback succeeds,
\* try_commit returns a commit failure whose reason is the failure of the
\* write, and the primary's partition holds the before-snapshot.
C6_FailedCommitRollsBack ==
    [][(/\ last'.op = "try_commit"
        /\ Readable(heap[tx.records_after], TxPath)
        /\ AllUnique(Stored(heap[tx.records_after], TxPath))
        /\ last'.faults[1] # "none"
        /\ Readable(heap[tx.records_before], TxPath)
        /\ last'.faults[2] = "none")
       => (/\ IsKind(last'.res, "DBTransactionCommitFailure")
           /\ last'.res.err.reason = to_string(WriteError(last'.faults[1]))
           /\ Readable(heap'["disk"], PrimaryPath)
           /\ Stored(heap'["disk"], PrimaryPath)
                  = Stored(heap[tx.records_before], TxPath))]_vars

\* a commit failed at its write and the rollback changed the primary
C6_Witness ==
    /\ last.op = "try_commit"
    /\ IsKind(last.res, "DBTransactionCommitFailure")
    /\ last.faults[1] = "write"
    /\ last.changed.primary

\* C7 as claimed: when the write of a commit and the rollback both fail,
\* try_commit returns a rollback failure whose reason embeds the reason of
\* the failure of the write.
C7_RollbackFailureKeepsCommitReason ==
    (/\ last.op = "try_commit"
     /\ IsKind(last.res, "DBTransactionRollbackFailure"))
    => Embeds(last.res.err.reason, to_string(WriteError(last.faults[1])))

\* C33: a try_commit whose after-snapshot is readable publishes it to the
\* primary once. When that publication succeeds the call returns Ok, the
\* primary holds the after-snapshot and the answer the operating system
\* would give to a second write is never asked for. When it fails (the
\* first write is refused; on the cbor backend also when replace_all rejects
\* an after-snapshot with a repeated unique value) the call does not
\* succeed whatever a second write would answer: it makes one rollback,
\* whose read and single write decide between a commit failure with the
\* before-snapshot in the primary and a rollback failure with the primary
\* unchanged.
C33_CommitTriesOnce ==
    (last.op = "try_commit" /\ last.case.readable)
    => LET published == /\ last.faults[1] = "none"
                        /\ (backend = "json" \/ last.clean)
           rolled_back == /\ Readable(heap[tx_before_source(tx)], TxPath)
                          /\ last.faults[2] = "none"
       IN  /\ published
              => /\ last.res.ok
                 /\ Readable(heap["disk"], PrimaryPath)
                 /\ Stored(heap["disk"], PrimaryPath)
                        = Stored(heap[tx_read_source(tx)], TxPath)
           /\ (~published /\ rolled_back)
              => /\ IsKind(last.res, "DBTransactionCommitFailure")
                 /\ Readable(heap["disk"], PrimaryPath)
                 /\ Stored(heap["disk"], PrimaryPath)
                        = Stored(heap[tx_before_source(tx)], TxPath)
           /\ (~published /\ ~rolled_back)
              => /\ IsKind(last.res, "DBTransactionRollbackFailure")
                 /\ ~last.changed.primary
           /\ last.wrote

\* the write of a commit was refused while a second write would have been
\* accepted: the call reports the commit failure and the primary holds the
\* before-snapshot, which differs from the after-snapshot
C33_Witness ==
    /\ last.op = "try_commit"
    /\ last.case.readable
    /\ last.faults = <<"write", "none">>
    /\ IsKind(last.res, "DBTransactionCommitFailure")
    /\ backend = "json"
    /\ Readable(heap["disk"], PrimaryPath)
    /\ Stored(heap["disk"], PrimaryPath) = Stored(heap[tx.records_before], TxPath)
    /\ Stored(heap[tx.records_before], TxPath) # Stored(heap[tx.records_after], TxPath)

\* C34: try_commit and try_rollback, successful or failed, leave the
\* transaction as it was: the handle holds the same allocations and both
\* snapshots hold what they held, so the transaction can be resolved again
C34_ResolvingKeepsTransaction ==
    [][last'.op \in {"try_commit", "try_rollback"}
       => /\ tx' = tx
          /\ heap'[tx.records_before] = heap[tx.records_before]
          /\ heap'[tx.records_after] = heap[tx.records_after]
          /\ ~last'.changed.before
          /\ ~last'.changed.after]_vars

\* a rollback has put the before-snapshot into the primary and the
\* transaction still holds two snapshots that differ
C34_Witness ==
    /\ last.op = "try_rollback"
    /\ last.res.ok
    /\ last.changed.primary
    /\ backend = "json"
    /\ Readable(heap[tx.records_before], TxPath)
    /\ Readable(heap[tx.records_after], TxPath)
    /\ Stored(heap["disk"], PrimaryPath) = Stored(heap[tx.records_before], TxPath)
    /\ Stored(heap[tx.records_before], TxPath) # Stored(heap[tx.records_after], TxPath)

\* C38: a try_commit of a transaction whose after-snapshot holds nothing at
\* the path returns the DBNotFound of the read as it is (not inside a commit
\* or rollback failure), calls no write of the primary and changes no
\* store, whatever the writes would have been answered; and so does a
\* try_rollback of a transaction whose before-snapshot holds nothing there
C38_UnseededResolveFails ==
    (last.op \in {"try_commit", "try_rollback"} /\ ~last.case.present)
    => /\ last.res = Err(Error("DBNotFound", TxPath, <<>>))
       /\ ~last.wrote
       /\ Untouched(last.changed)

\* a try_commit of a transaction that was never seeded or written found
\* nothing to commit and left a populated primary as it was
C38_Witness ==
    /\ last.op = "try_commit"
    /\ ~last.case.present
    /\ IsKind(last.res, "DBNotFound")
    /\ last.faults[1] = "none"
    /\ TxPath \notin DOMAIN heap[tx.records_after]
    /\ Readable(heap["disk"], PrimaryPath)
    /\ Len(Stored(heap["disk"], PrimaryPath)) = 1

\* C21 as claimed: once the first try_initialize_storage has populated the
\* before-snapshot of a transaction, get_all_before returns the data it was
\* populated with, whatever calls follow on the transaction and on the
\* primary, for the transaction type of every backend
C21_BeforeFixedAtSeed ==
    (tx.open /\ seeded.set)
    => memory_try_read(heap[tx_before_source(tx)], TxPath).res = Ok(seeded.data)

\* both snapshots of the open transaction hold nothing at all
SnapshotsEmpty ==
    /\ tx.open
    /\ heap[tx.records_before] = EmptyStore
    /\ heap[tx.records_after] = EmptyStore

\* C19: try_initialize_storage with data d on a transaction whose two
\* snapshots hold nothing at the path succeeds, and right after it the read
\* of the after-snapshot (get_all) and the read of the before-snapshot
\* (get_all_before) both return d, on both backends
C19_SeedingFillsBothSnapshots ==
    [][(/\ last'.op = "tx_try_initialize_storage"
        /\ TxPath \notin DOMAIN heap[tx_before_source(tx)]
        /\ TxPath \notin DOMAIN heap[tx_read_source(tx)])
       => (/\ last'.res.ok
           /\ last'.holds_arg
           /\ get_all_with_path(Handle("memory", heap'[tx_read_source(tx)]),
                                TxPath, NoEnv).res
              = memory_try_read(heap'[tx_before_source(tx)], TxPath).res
           /\ seeded'.set
           /\ memory_try_read(heap'[tx_before_source(tx)], TxPath).res
              = Ok(seeded'.data))]_vars

\* a fresh transaction of the backend with two stores has been seeded with
\* a record: both snapshots return it
C19_Witness ==
    /\ backend = "json"
    /\ last.op = "tx_try_initialize_storage"
    /\ ~last.case.present
    /\ last.res.ok
    /\ last.changed.before
    /\ last.changed.after
    /\ seeded.set
    /\ seeded.data # <<>>
    /\ memory_try_read(heap[tx_read_source(tx)], TxPath).res = Ok(seeded.data)
    /\ memory_try_read(heap[tx_before_source(tx)], TxPath).res = Ok(seeded.data)

\* C40 as claimed, for the transaction of every backend: a
\* try_initialize_storage on the transaction handle succeeds and treats each
\* snapshot by itself, leaving a snapshot that holds the path as it is and
\* giving the default to one that does not; so on a transaction that was
\* written but never seeded the before-snapshot gets the default while the
\* after-snapshot keeps what was written, and on a seeded transaction
\* nothing changes
C40_SeedsEachSnapshot ==
    [][last'.op = "tx_try_initialize_storage"
       => /\ last'.res.ok
          /\ \E d \in TxCollections :
                \A X \in {tx.records_before, tx.records_after} :
                    IF TxPath \in DOMAIN heap[X]
                    THEN heap'[X] = heap[X]
                    ELSE HoldsArg(heap'[X], TxPath, d)
          /\ (~seeded.set /\ TxPath \in DOMAIN heap[tx_read_source(tx)])
             => /\ seeded'.set
                /\ memory_try_read(heap'[tx_before_source(tx)], TxPath).res
                       = Ok(seeded'.data)
                /\ ~last'.changed.after
          /\ seeded.set => (heap' = heap /\ seeded' = seeded)]_vars

C22_RoundTrip ==
    [][(/\ last.op = "try_write_storage"
        /\ last.res.ok
        /\ last'.op = "try_read_storage"
        /\ last'.case.handle = last.case.handle
        /\ last'.case.path = last.case.path
        /\ last'.case.type = last.case.type)
       => (/\ last'.res = Ok(last.case.value)
           /\ heap' = heap)]_vars

\* one record was written on the in-memory handle and read back, after a
\* collection had been stored at the same path
C22_Witness ==
    /\ last.op = "try_read_storage"
    /\ last.case.type = "value"
    /\ last.case.handle = "m1"
    /\ last.res.ok
    /\ last.res.val \in TxRecords
    /\ last.case.path \in DOMAIN heap["disk"]
    /\ Readable(heap["disk"], last.case.path)
    /\ Stored(heap["disk"], last.case.path) # <<>>

\* C23: get_all and try_read_storage, for a collection or for one record,
\* on a handle that holds nothing at the path return NotFound for that path
\* (no empty collection, no other failure) and leave every store as it was:
\* nothing is created at the path
C23_MissingIsNotFound ==
    [][(/\ last'.op \in {"get_all", "try_read_storage"}
        /\ last'.case.path \notin DOMAIN heap[last'.case.handle])
       => (/\ last'.res = Err(Error("DBNotFound", last'.case.path, <<>>))
           /\ heap' = heap)]_vars

\* get_all on the file engine has returned NotFound for a path that the
\* in-memory handle holds a collection at
C23_Witness ==
    /\ last.op = "get_all"
    /\ last.case.handle = "disk"
    /\ IsKind(last.res, "DBNotFound")
    /\ last.case.path \notin DOMAIN heap["disk"]
    /\ Readable(heap["m1"], last.case.path)

\* the bytes are the document of a value of the type
DecodesAs(type, bytes) ==
    IF type = "collection" THEN from_slice(bytes).ok ELSE from_slice_value(bytes).ok

\* C24 as claimed: a read, on any backend, of a path whose bytes do not
\* decode returns the Corrupt error, leaves the bytes at the path as they
\* were and leaves exactly one new entry in the store, a backup that holds
\* those bytes
C24_CorruptReadBacksUp ==
    [][(/\ last'.op \in {"get_all", "try_read_storage"}
        /\ last'.case.path \in DOMAIN heap[last'.case.handle]
        /\ ~DecodesAs(last'.case.type, heap[last'.case.handle][last'.case.path]))
       => (/\ IsKind(last'.res, "DBCorrupt")
           /\ last'.res.err.path = last'.case.path
           /\ \A q \in DOMAIN heap[last'.case.handle] :
                 heap'[last'.case.handle][q] = heap[last'.case.handle][q]
           /\ \E b \in DOMAIN heap'[last'.case.handle] :
                 /\ DOMAIN heap'[last'.case.handle]
                    = DOMAIN heap[last'.case.handle] \cup {b}
                 /\ b \notin DOMAIN heap[last'.case.handle]
                 /\ heap'[last'.case.handle][b]
                    = heap[last'.case.handle][last'.case.path])]_vars

(***************************************************************************)
(* Properties of the two layers (specification SpecLayers)                 *)
(***************************************************************************)
\* C25: for every record kind and every starting state of the files, a call
\* of get_all, insert, insert_all, update, update_all, upsert, upsert_all,
\* replace_all or try_initialize_storage for the kind and the call of its
\* _with_path form with file_path(T::PARTITION) return the same result and
\* leave the same files
C25_LayersAgree ==
    last.op \in CrudOps \cup {"get_all", "try_initialize_storage"}
    => (last.case.same_res /\ last.case.same_store)

\* an update of the second kind has changed its partition, as the call with
\* the path does
C25_Witness ==
    /\ last.op = "update"
    /\ last.case.kind = Kinds[2]
    /\ last.res.ok
    /\ last.changed.primary
    /\ last.case.same_res
    /\ last.case.same_store

(***************************************************************************)
(* Properties of composite operations (specification SpecGroup)            *)
(***************************************************************************)
\* C11 as claimed: a composite operation over a group of N kinds makes the
\* N calls in group order and stops at the first that fails: the partitions
\* of the kinds before it hold what their calls leave, the partitions from
\* it on are as they were, and its result is returned; without a failure
\* every partition holds what its call leaves and the result is Ok.
C11_GroupShortCircuits ==
    last.op = "with_operatable"
    => IF last.case.failed = 0
       THEN /\ last.res.ok
            /\ last.case.persisted = 1..last.case.arity
       ELSE /\ last.res = last.case.single_res
            /\ \A k \in 1..(last.case.failed - 1) : k \in last.case.persisted
            /\ \A k \in last.case.failed..last.case.arity : k \in last.case.kept

\* the groups that list the kinds of the group in another order
Reorderings(kinds) ==
    {ks \in KindLists : {ks[i] : i \in DOMAIN ks} = {kinds[i] : i \in DOMAIN kinds}}

\* C26 as claimed: the composite get_all of a group returns in slot i the
\* collection get_all returns for the i-th kind of the group (the failure of
\* the first kind whose get_all fails when there is one), so the groups
\* that list the same kinds in another order return the same collections,
\* each in the slot of its kind
C26_GroupGetAllBySlot ==
    last.op = "get_all_with_operatable"
    => IF \A i \in 1..last.case.arity : last.case.singles[i].ok
       THEN /\ last.res = Ok([i \in 1..last.case.arity |-> last.case.singles[i].val])
            /\ \A ks \in Reorderings(last.case.kinds) :
                  LET other == get_all_with_operatable(heap["disk"], ks, NoEnv).res
                  IN  /\ other.ok
                      /\ \A i, j \in 1..last.case.arity :
                            ks[i] = last.case.kinds[j] => other.val[i] = last.res.val[j]
       ELSE \E k \in 1..last.case.arity :
                /\ ~last.case.singles[k].ok
                /\ \A j \in 1..(k - 1) : last.case.singles[j].ok
                /\ last.res = last.case.singles[k]

\* C27 as claimed: a composite operation on a group of one kind returns the
\* result of the single-kind operation and leaves the kind's partition as
\* that operation leaves it
C27_ArityOneSupported ==
    (last.op = "with_operatable" /\ last.case.arity = 1)
    => /\ last.res = last.case.single_res
       /\ last.case.persisted = {1}

(***************************************************************************)
(* Properties of threads on one MemoryDB (specification SpecMem)           *)
(***************************************************************************)
\* C12: an insert on the in-memory backend is a read of the map and a later
\* write of the map, each exclusive, and not one atomic step: a successful
\* insert leaves the records the thread read followed by its new records,
\* whatever another thread wrote in between; so two inserts of different
\* new keys can both succeed and leave only one of the two records.
C12_WriteKeepsOnlyWhatWasRead ==
    [][\A t \in Threads :
          (threads[t].pc = "read" /\ threads'[t].pc = "done" /\ threads'[t].res.ok)
          => (/\ Readable(heap'["m1"], MemPath)
              /\ Stored(heap'["m1"], MemPath)
                     = threads[t].records \o threads[t].new_records)]_vars

\* both threads read the same records, inserted different new keys, both
\* returned Ok, and the partition holds one record more, not two
C12_Witness ==
    /\ \A t \in Threads : threads[t].pc = "done" /\ threads[t].res.ok
    /\ unique_value(threads[1].new_records[1]) # unique_value(threads[2].new_records[1])
    /\ threads[1].records = threads[2].records
    /\ Len(Stored(heap["m1"], MemPath)) = Len(threads[1].records) + 1

\* C35: whatever the interleaving of the reads and writes of the threads'
\* insert, update and replace_all calls, the partition of the MemoryDB
\* always holds a collection whose records have pairwise-distinct unique
\* values (checked under SpecMemOps)
C35_StoredKeysDistinct ==
    /\ Readable(heap["m1"], MemPath)
    /\ AllUnique(Stored(heap["m1"], MemPath))

\* a thread is between its read and its write while the partition already
\* holds two records it has not read: its write will drop them
C35_Witness ==
    \E t \in Threads :
        /\ threads[t].pc = "read"
        /\ threads[t].records = <<>>
        /\ Len(Stored(heap["m1"], MemPath)) = 2

(***************************************************************************)
(* Properties of calls on two partitions (specification SpecFrame)         *)
(***************************************************************************)
\* C39: a call for one record kind (get_all, insert, update, replace_all,
\* try_initialize_storage, a raw write, the calls on the transaction handle,
\* try_commit, try_rollback), successful or not, leaves every path of every
\* store other than the kind's own paths as it was, held or not; the one
\* exception is the backup of the kind's path in the primary's directory
C39_OtherPathsKept ==
    [][last'.op # "transact"
       => \A id \in DOMAIN heap :
             \A p \in DOMAIN heap[id] \cup DOMAIN heap'[id] :
                 p \notin {PrimaryPathOf(last'.case.kind), TxPathOf(last'.case.kind)}
                 => \/ At(heap'[id], p) = At(heap[id], p)
                    \/ /\ id = "disk"
                       /\ \E now \in Times :
                             p = backup_path(PrimaryPathOf(last'.case.kind),
                                             "FAILED_PARSING", now)]_vars

\* a commit for the first kind has changed the primary while the primary
\* and the transaction hold the partition of the second kind
C39_Witness ==
    /\ last.op = "try_commit"
    /\ last.case.kind = Kinds[1]
    /\ last.res.ok
    /\ last.changed.primary
    /\ Readable(heap["disk"], PrimaryPathOf(Kinds[2]))
    /\ Len(Stored(heap["disk"], PrimaryPathOf(Kinds[2]))) = 1
    /\ TxPathOf(Kinds[2]) \in DOMAIN heap[tx.records_after]
    /\ TxPathOf(Kinds[2]) \in DOMAIN heap[tx.records_before]

====
